---- MODULE Spec2Model ----
(***************************************************************************)
(* A model of the multilspy language-server facade of serena:              *)
(* the document buffer registry (LanguageServer.open_file and the text     *)
(* edits), the document-symbol cache, the facade's request operations and  *)
(* their "not started" gates, and the notifications the child receives.    *)
(***************************************************************************)
EXTENDS Integers, Sequences, FiniteSets, TLC

\* ------------------------------------------------------------------ bounds
MaxScopes == 1
MaxPending == 1
MaxRefCount == 2
MaxVersion == 2
MaxCacheEdits == 1
MaxStarts == 2
MaxStops == 2
MaxLocations == 1
MaxLine == 1
MaxCol == 1
MaxSymbols == 1
MaxTreeCalls == 1
MaxRefs == 2
MaxCompletionRequests == 32
MaxEmits == 3

\* ------------------------------------------------------------ environment
NL == "\n"
Files == {"a.py"}
InsertTexts == {<<"a">>, <<NL, "b">>}
SymbolAnswers == {"symsA", "symsB"}
NoAnswer == "null"

\* FileUtils.read_file: the file's contents on disk
read_file(p) == <<"a", NL, "b">>

\* pathlib.Path(PurePath(repository_root_path, relative_file_path)).as_uri()
as_uri(p) == "file:///repo/" \o p
URIs == {as_uri(p) : p \in Files}

Remove(f, k) == [x \in DOMAIN f \ {k} |-> f[x]]

\* --------------------------------------------------------------- LSPFileBuffer
CharCode(c) == CASE c = "a" -> 1 [] c = "b" -> 2 [] OTHER -> 3

\* hashlib.md5(contents).hexdigest(): a digest that tells apart every two
\* texts of the bounded alphabet (base-4 positional code, digits 1..3)
RECURSIVE MD5(_)
MD5(s) == IF s = <<>> THEN 0
          ELSE 4 * MD5(SubSeq(s, 1, Len(s) - 1)) + CharCode(s[Len(s)])

\* the dataclass constructor with __post_init__
LSPFileBuffer(uri, contents, version, ref_count) ==
  [uri |-> uri, contents |-> contents, version |-> version,
   ref_count |-> ref_count, content_hash |-> MD5(contents)]

\* ------------------------------------------------ the child's document mirror
\* what the language server holds for a URI after applying the notifications.
\* in_order is not in the code: it says that the notifications received so
\* far for the URI form a prefix of (didOpen, didChange*, didClose)*
ClosedDoc == [open |-> FALSE, text |-> <<>>, version |-> 0,
              last |-> "none", prev |-> 0, in_order |-> TRUE]

did_open_text_document(s, uri, version, text) ==
  [s EXCEPT ![uri] = [open |-> TRUE, text |-> text, version |-> version,
                      last |-> "didOpen", prev |-> @.version,
                      in_order |-> @.in_order /\ ~@.open]]

did_close_text_document(s, uri) ==
  [s EXCEPT ![uri] = [open |-> FALSE, text |-> <<>>, version |-> @.version,
                      last |-> "didClose", prev |-> @.version,
                      in_order |-> @.in_order /\ @.open]]

VARIABLES
  server_started,        \* LanguageServer.server_started
  open_file_buffers,     \* LanguageServer.open_file_buffers: uri -> LSPFileBuffer
  srv,                   \* the child's mirror of each document
  scopes,                \* open_file scopes the caller holds, per file
  pending,               \* requests awaiting the child's answer: id -> request
  cache,                 \* LanguageServer._document_symbols_cache
  cache_has_changed,     \* LanguageServer._cache_has_changed
  hist,                  \* per file: the last insertion, for the round trip
  ret                    \* what the last facade call did

\* the sync facade (SyncLanguageServer), its loop thread and the child process
VARIABLES
  loop,                  \* SyncLanguageServer.loop: "None" or "set"
  loop_thread,           \* SyncLanguageServer.loop_thread: "None" or "set"
  thread,                \* the loop thread last created: "none", "alive", "exited", "stuck"
  server_context,        \* SyncLanguageServer._server_context: "None" or "set"
  is_shutting_down,      \* SyncLanguageServer._is_shutting_down
  is_windows,            \* os.name == "nt"
  sync_pc,               \* where the caller's thread is inside stop()
  co_pc,                 \* where the coroutine _shutdown_and_stop_loop is
  process,               \* the child process: "none", "running", "exited"
  sigterm,               \* the child has been sent the terminate signal
  server_process,        \* LanguageServerHandler.process is not None
  request,               \* the future of a request submitted to the loop
  starts,                \* start() calls so far
  stop_log               \* the stop() calls since the last start()

\* the path mapper and the location requests
VARIABLES
  cache_uri_to_absolute_path,   \* UriPathMapper._uri_to_absolute_path
  cache_abs_to_relative_path,   \* UriPathMapper._abs_to_relative_path
  relpath_outside,              \* what get_relative_path answers outside the root
  loc_call                      \* the last location request that returned

bufvars == <<open_file_buffers, srv, scopes, pending, cache,
             cache_has_changed, hist, ret>>

syncvars == <<loop, loop_thread, thread, server_context, is_shutting_down,
              is_windows, sync_pc, co_pc, process, sigterm, server_process,
              request, starts, stop_log>>

\* request_containing_symbol
VARIABLES
  sym_file,                     \* the file and the document symbols the child reports for it
  sym_call                      \* the last request_containing_symbol call

\* request_full_symbol_tree
VARIABLES
  tree_fs,                      \* the regular files under the repository root
  ignored_paths,                \* config.ignored_paths: the patterns of _ignore_spec
  listdir_reversed,             \* the order in which os.listdir names the entries
  tree_call,                    \* the last request_full_symbol_tree call
  tree_calls                    \* request_full_symbol_tree calls so far

treevars == <<tree_fs, ignored_paths, listdir_reversed, tree_call, tree_calls>>

\* the blocking request methods of the sync facade
VARIABLES
  timeout,                      \* SyncLanguageServer.timeout: "None" or "set"
  sync_call                     \* the facade call last made and its future

callvars == <<timeout, sync_call>>

\* the persisted symbol cache
VARIABLES
  cache_file,                   \* the file at _cache_path
  save_log,                     \* the last save_cache call
  at_stop_return                \* the cache and the file when stop() last returned

filevars == <<cache_file, save_log, at_stop_return>>

\* LanguageServer._shutdown, stage by stage
VARIABLES
  sd_pc,                        \* where _shutdown is
  sd_log,                       \* the steps _shutdown has performed, in order
  sd_wait,                      \* how the stage-2 wait ended: "none", "exited", "timeout"
  task_state,                   \* each reader task: "running", "cancelling" or "done"
  server_tasks,                 \* self.server.tasks: the reader tasks registered
  reader_tasks,                 \* the local reader_tasks of _shutdown
  pipes                         \* process.stdin, stdout, stderr: "open" or "closed"

shutvars == <<sd_pc, sd_log, sd_wait, task_state, server_tasks, reader_tasks, pipes>>

\* Gopls.start_server
VARIABLE
  start_pc                      \* where the start_server of the language server is

\* request_referencing_symbols and request_completions
VARIABLES
  refs_call,                    \* a request_referencing_symbols call: the references
                                \* the child lists, the arguments, the result
  completion                    \* a request_completions call: its loop and its result

reqvars == <<refs_call, completion>>

\* the cache lock and the two threads that take it
VARIABLES
  cache_lock,                   \* self._cache_lock: "free" or the thread holding it
  loop_pc,                      \* request_document_symbols on the loop thread
  caller_pc,                    \* save_cache or load_cache on the caller's thread
  unlocked_access               \* not in the code: the cache or the dirty flag was
                                \* accessed by a thread that did not hold the lock

lockvars == <<cache_lock, loop_pc, caller_pc, unlocked_access>>

\* open_file entered from two threads
VARIABLE
  race                          \* per thread: where it is inside open_file, the
                                \* ref_count it has read, and whether the buffer
                                \* object it holds has left the registry

\* not in the code: the loop threads this facade created that are still alive
VARIABLE
  alive_threads

\* the diagnostics the child publishes
VARIABLES
  diagnostics_store,            \* LanguageServer._diagnostics_store
  published,                    \* not in the code: per path, the diagnostics of
                                \* the last notification the child sent
  diag_call                     \* the last get_diagnostics_for_file call: its
                                \* result, and in notified what the child had
                                \* last published for the path when it was made

diagvars == <<diagnostics_store, published, diag_call>>

\* the scope of SyncLanguageServer.start_server
VARIABLE
  scope                         \* "none", "body" (inside the with block, or left
                                \* by its normal end once stop() has returned),
                                \* "raised" (the body raised)

\* the dashboard's log
VARIABLES
  log_queue,                    \* MemoryLogHandler._log_queue
  logs,                         \* LogBuffer.logs
  emitted,                      \* not in the code: how many records were emitted;
                                \* the n-th emitted message is the number n
  log_poll,                     \* the /get_log_messages request in progress and
                                \* the start_idx of the client's next request
  delivered                     \* not in the code: the messages of all responses
                                \* the client received, in order of arrival

logvars == <<log_queue, logs, emitted, log_poll, delivered>>

ext_rest == <<lockvars, race, diagvars, scope, logvars>>

extvars == <<ext_rest, alive_threads>>

symvars == <<sym_file, sym_call, treevars, callvars, filevars, shutvars, start_pc,
             reqvars, extvars>>

locvars == <<cache_uri_to_absolute_path, cache_abs_to_relative_path,
             relpath_outside, loc_call>>

vars == <<server_started, bufvars, syncvars, locvars, symvars>>

\* ------------------------------------------------------------- open_file
\* open_file up to its yield: registry and notifications
OpenFileEnterBufs(b, p) ==
  LET u == as_uri(p) IN
  IF u \in DOMAIN b
    THEN [b EXCEPT ![u].ref_count = @ + 1]
    ELSE b @@ (u :> LSPFileBuffer(u, read_file(p), 0, 1))

\* an open_file that notifies the child on every entry
OpenFileEnterSrv_AlwaysNotifies(s, b, p) ==
  did_open_text_document(s, as_uri(p), 0, read_file(p))

OpenFileEnterSrv(s, b, p) ==
  LET u == as_uri(p) IN
  IF u \in DOMAIN b THEN s ELSE did_open_text_document(s, u, 0, read_file(p))

\* an exit that decrements and leaves the buffer in the registry
OpenFileExitBufs_BufferKept(b, p) ==
  [b EXCEPT ![as_uri(p)].ref_count = @ - 1]

\* open_file after its yield, reached when the scope's body ends normally
OpenFileExitBufs(b, p) ==
  LET u == as_uri(p)
      d == [b EXCEPT ![u].ref_count = @ - 1]
  IN IF d[u].ref_count = 0 THEN Remove(d, u) ELSE d

OpenFileExitSrv(s, b, p) ==
  LET u == as_uri(p) IN
  IF b[u].ref_count - 1 = 0 THEN did_close_text_document(s, u) ELSE s

\* the code after the yield is not in a finally block: when the body raises
\* (or the awaiting coroutine is cancelled) the generator is left at the yield
OpenFileRaiseBufs(b, p) == b

OpenFileRaiseSrv(s, b, p) == s

\* no completed request_document_symbols call since the last edit
NoDoc == [how |-> "none", key |-> <<>>, result |-> "none"]

\* what the caller of an operation observes.  last, prev and result are not
\* in the code: last is the latest completed request_document_symbols call
\* with no edit after it, prev is the value of last when the call was made,
\* result is what the call returned
RetOf(op, outcome, started, sent, last) ==
  [op |-> op, outcome |-> outcome, started |-> started, sent |-> sent,
   fresh |-> TRUE, last |-> last, prev |-> NoDoc, result |-> "none"]

Ret(op, outcome, started, sent) == RetOf(op, outcome, started, sent, ret.last)

NoHist == [phase |-> "none", contents |-> <<>>, content_hash |-> 0,
           version |-> 0, start |-> <<0, 0>>, end |-> <<0, 0>>]

\* number of open_file scopes currently entered for a file
ActiveScopes(p) ==
  scopes[p] + Cardinality({i \in DOMAIN pending : pending[i].path = p})

FreeId == CHOOSE i \in 1..(MaxPending + 1) : i \notin DOMAIN pending

\* ---------------------------------------------------------- start / shutdown
StartServer ==
  /\ ~server_started
  /\ server_started' = TRUE
  /\ ret' = Ret("start_server", "ok", TRUE, FALSE)
  /\ UNCHANGED <<open_file_buffers, srv, scopes, pending, cache,
                 cache_has_changed, hist>>
  /\ UNCHANGED <<syncvars, locvars, symvars>>

ExitServer ==
  /\ server_started
  /\ server_started' = FALSE
  /\ ret' = Ret("start_server_exit", "ok", FALSE, FALSE)
  /\ UNCHANGED <<open_file_buffers, srv, scopes, pending, cache,
                 cache_has_changed, hist>>
  /\ UNCHANGED <<syncvars, locvars, symvars>>

\* ------------------------------------------------- open_file called directly
OpenFile(p) ==
  /\ scopes[p] < MaxScopes
  /\ as_uri(p) \in DOMAIN open_file_buffers
       => open_file_buffers[as_uri(p)].ref_count < MaxRefCount
  /\ IF ~server_started
       THEN /\ ret' = Ret("open_file", "NotStarted", FALSE, FALSE)
            /\ UNCHANGED <<open_file_buffers, srv, scopes>>
       ELSE /\ open_file_buffers' = OpenFileEnterBufs(open_file_buffers, p)
            /\ srv' = OpenFileEnterSrv(srv, open_file_buffers, p)
            /\ scopes' = [scopes EXCEPT ![p] = @ + 1]
            /\ ret' = Ret("open_file", "ok", TRUE, as_uri(p) \notin DOMAIN open_file_buffers)
  /\ UNCHANGED <<server_started, pending, cache, cache_has_changed, hist>>
  /\ UNCHANGED <<syncvars, locvars, symvars>>

CloseFile(p) ==
  /\ scopes[p] > 0
  /\ open_file_buffers' = OpenFileExitBufs(open_file_buffers, p)
  /\ srv' = OpenFileExitSrv(srv, open_file_buffers, p)
  /\ scopes' = [scopes EXCEPT ![p] = @ - 1]
  /\ ret' = Ret("open_file_exit", "ok", server_started, FALSE)
  /\ hist' = IF as_uri(p) \in DOMAIN open_file_buffers' THEN hist
             ELSE [hist EXCEPT ![p] = NoHist]
  /\ UNCHANGED <<server_started, pending, cache, cache_has_changed>>
  /\ UNCHANGED <<syncvars, locvars, symvars>>

CloseFileRaise(p) ==
  /\ scopes[p] > 0
  /\ open_file_buffers' = OpenFileRaiseBufs(open_file_buffers, p)
  /\ srv' = OpenFileRaiseSrv(srv, open_file_buffers, p)
  /\ scopes' = [scopes EXCEPT ![p] = @ - 1]
  /\ ret' = Ret("open_file_exit", "raised", server_started, FALSE)
  /\ UNCHANGED <<server_started, pending, cache, cache_has_changed, hist>>
  /\ UNCHANGED <<syncvars, locvars, symvars>>

\* ------------------------------------------------------------- TextUtils
\* positions are (line, character), both zero-based; offsets count characters
NLCount(t) == Cardinality({i \in 1..Len(t) : t[i] = NL})

\* TextUtils.get_index_from_line_col: walk to the start of the line, add col
RECURSIVE LineStartFrom(_, _, _)
LineStartFrom(text, idx, line) ==
  IF line = 0 THEN idx
  ELSE IF idx >= Len(text) THEN -1
  ELSE LineStartFrom(text, idx + 1, IF text[idx + 1] = NL THEN line - 1 ELSE line)

get_index_from_line_col(text, line, col) == LineStartFrom(text, 0, line) + col

RECURSIVE LineLenFrom(_, _)
LineLenFrom(text, idx) ==
  IF idx >= Len(text) \/ text[idx + 1] = NL THEN 0
  ELSE 1 + LineLenFrom(text, idx + 1)

\* the positions that exist in a text
Positions(text) ==
  {pos \in (0..Len(text)) \X (0..Len(text)) :
     /\ LineStartFrom(text, 0, pos[1]) >= 0
     /\ pos[2] <= LineLenFrom(text, LineStartFrom(text, 0, pos[1]))}

PosLeq(a, b) == a[1] < b[1] \/ (a[1] = b[1] /\ a[2] <= b[2])

\* length of the text after its last newline
RECURSIVE LastLineLen(_)
LastLineLen(t) ==
  IF t = <<>> \/ t[Len(t)] = NL THEN 0
  ELSE 1 + LastLineLen(SubSeq(t, 1, Len(t) - 1))

\* TextUtils.insert_text_at_position: <<new contents, new line, new column>>
insert_text_at_position(text, line, col, ins) ==
  LET i == get_index_from_line_col(text, line, col)
      nl == NLCount(ins)
  IN <<SubSeq(text, 1, i) \o ins \o SubSeq(text, i + 1, Len(text)),
       line + nl,
       IF nl > 0 THEN LastLineLen(ins) ELSE col + Len(ins)>>

\* TextUtils.delete_text_between_positions: <<new contents, deleted text>>
delete_text_between_positions(text, start, end) ==
  LET i == get_index_from_line_col(text, start[1], start[2])
      j == get_index_from_line_col(text, end[1], end[2])
  IN <<SubSeq(text, 1, i) \o SubSeq(text, j + 1, Len(text)),
       SubSeq(text, i + 1, j)>>

\* ------------------------------------------- the child applying a didChange
\* LSP 3.17: the offset of a position is the start of its line plus the
\* character, which falls back to the line's length when it is greater
LspOffset(text, pos) ==
  LET s == LineStartFrom(text, 0, pos[1])
      n == LineLenFrom(text, s)
  IN s + (IF pos[2] > n THEN n ELSE pos[2])

ApplyContentChange(text, start, end, new) ==
  SubSeq(text, 1, LspOffset(text, start)) \o new
    \o SubSeq(text, LspOffset(text, end) + 1, Len(text))

did_change_text_document(s, uri, version, start, end, new) ==
  [s EXCEPT ![uri] = [open |-> @.open,
                      text |-> ApplyContentChange(@.text, start, end, new),
                      version |-> version, last |-> "didChange",
                      prev |-> @.version, in_order |-> @.in_order /\ @.open]]

\* ------------------------------------------------ insert_text_at_position
\* the buffer after the edit: version bumped, contents replaced
BufferAfterInsert(buf, line, col, ins) ==
  [buf EXCEPT !.version = @ + 1,
              !.contents = insert_text_at_position(buf.contents, line, col, ins)[1]]

\* an insertion reported as the replacement of the character after it
InsertChangeRange_OneWide(line, col) == <<(<<line, col>>), (<<line, col + 1>>)>>

\* the range of the content change the insertion reports
InsertChangeRange(line, col) == <<(<<line, col>>), (<<line, col>>)>>

InsertText(p, line, col, ins, max_edits) ==
  LET u == as_uri(p) IN
  /\ IF ~server_started
       THEN /\ ret' = Ret("insert_text_at_position", "NotStarted", FALSE, FALSE)
            /\ UNCHANGED <<open_file_buffers, srv, hist>>
       ELSE IF u \notin DOMAIN open_file_buffers
       THEN /\ ret' = Ret("insert_text_at_position", "AssertionError", TRUE, FALSE)
            /\ UNCHANGED <<open_file_buffers, srv, hist>>
       ELSE LET buf == open_file_buffers[u]
                new == BufferAfterInsert(buf, line, col, ins)
                r == InsertChangeRange(line, col)
                res == insert_text_at_position(buf.contents, line, col, ins)
            IN /\ buf.version < max_edits
               /\ <<line, col>> \in Positions(buf.contents)
               /\ open_file_buffers' = [open_file_buffers EXCEPT ![u] = new]
               /\ srv' = did_change_text_document(srv, u, new.version, r[1], r[2], ins)
               /\ hist' = [hist EXCEPT ![p] =
                    [phase |-> "inserted", contents |-> buf.contents,
                     content_hash |-> buf.content_hash, version |-> buf.version,
                     start |-> <<line, col>>, end |-> <<res[2], res[3]>>]]
               /\ ret' = RetOf("insert_text_at_position", "ok", TRUE, TRUE, NoDoc)
  /\ UNCHANGED <<server_started, scopes, pending, cache, cache_has_changed>>
  /\ UNCHANGED <<syncvars, locvars, symvars>>

\* ------------------------------------------ delete_text_between_positions
\* a deletion that bumps the version and forgets to store the new contents
BufferAfterDelete_ContentsKept(buf, start, end) ==
  [buf EXCEPT !.version = @ + 1]

BufferAfterDelete(buf, start, end) ==
  [buf EXCEPT !.version = @ + 1,
              !.contents = delete_text_between_positions(buf.contents, start, end)[1]]

DeleteText(p, start, end, max_edits) ==
  LET u == as_uri(p) IN
  /\ IF ~server_started
       THEN /\ ret' = Ret("delete_text_between_positions", "NotStarted", FALSE, FALSE)
            /\ UNCHANGED <<open_file_buffers, srv, hist>>
       ELSE IF u \notin DOMAIN open_file_buffers
       THEN /\ ret' = Ret("delete_text_between_positions", "AssertionError", TRUE, FALSE)
            /\ UNCHANGED <<open_file_buffers, srv, hist>>
       ELSE LET buf == open_file_buffers[u]
                new == BufferAfterDelete(buf, start, end)
            IN /\ buf.version < max_edits
               /\ start \in Positions(buf.contents)
               /\ end \in Positions(buf.contents)
               /\ PosLeq(start, end)
               /\ open_file_buffers' = [open_file_buffers EXCEPT ![u] = new]
               /\ srv' = did_change_text_document(srv, u, new.version, start, end, <<>>)
               /\ hist' = [hist EXCEPT ![p] =
                    IF @.phase = "inserted" /\ @.start = start /\ @.end = end
                      THEN [@ EXCEPT !.phase = "undone"]
                      ELSE NoHist]
               /\ ret' = RetOf("delete_text_between_positions", "ok", TRUE, TRUE, NoDoc)
  /\ UNCHANGED <<server_started, scopes, pending, cache, cache_has_changed>>
  /\ UNCHANGED <<syncvars, locvars, symvars>>

\* --------------------------------------------------- the request operations
\* the operations that open the file and send one request for it
FileOps == {"request_definition", "request_references", "request_hover",
            "request_completions", "request_code_action",
            "request_document_diagnostic", "request_referencing_symbols",
            "request_defining_symbol"}

\* what each operation does first when server_started is false:
\*   "raise"       its own check raises MultilspyException("Language Server not started")
\*   "return_none" its own check logs and returns None
\*   "open_file"   it has no check; the open_file it enters raises the exception
\*   "none"        it has no check and opens no file: the request is sent
NotStartedGate(op) ==
  CASE op \in {"request_definition", "request_references",
               "request_referencing_symbols", "request_defining_symbol"} -> "raise"
    [] op \in {"request_code_action", "request_document_diagnostic"} -> "return_none"
    [] op \in {"request_hover", "request_completions",
               "request_document_symbols"} -> "open_file"
    [] OTHER -> "none"

NotStartedOutcome(op) ==
  CASE NotStartedGate(op) = "return_none" -> "None"
    [] NotStartedGate(op) = "none" -> "pending"
    [] OTHER -> "NotStarted"

CanEnter(p) ==
  /\ Cardinality(DOMAIN pending) < MaxPending
  /\ as_uri(p) \in DOMAIN open_file_buffers
       => open_file_buffers[as_uri(p)].ref_count < MaxRefCount

Req(op, p, ib) == [op |-> op, path |-> p, include_body |-> ib]

RequestOnFile(op, p) ==
  /\ CanEnter(p)
  /\ IF ~server_started
       THEN /\ ret' = Ret(op, NotStartedOutcome(op), FALSE, FALSE)
            /\ UNCHANGED <<open_file_buffers, srv, pending>>
       ELSE /\ open_file_buffers' = OpenFileEnterBufs(open_file_buffers, p)
            /\ srv' = OpenFileEnterSrv(srv, open_file_buffers, p)
            /\ pending' = pending @@ (FreeId :> Req(op, p, FALSE))
            /\ ret' = Ret(op, "pending", TRUE, TRUE)
  /\ UNCHANGED <<server_started, scopes, cache, cache_has_changed, hist>>
  /\ UNCHANGED <<syncvars, locvars, symvars>>

\* request_workspace_symbol: server.send.workspace_symbol, whatever the phase
RequestWorkspaceSymbol ==
  /\ Cardinality(DOMAIN pending) < MaxPending
  /\ pending' = pending @@ (FreeId :> Req("request_workspace_symbol", "", FALSE))
  /\ ret' = Ret("request_workspace_symbol",
                IF server_started THEN "pending"
                ELSE NotStartedOutcome("request_workspace_symbol"),
                server_started, TRUE)
  /\ UNCHANGED <<server_started, open_file_buffers, srv, scopes, cache,
                 cache_has_changed, hist>>
  /\ UNCHANGED <<syncvars, locvars, symvars>>

\* the child answers: the scope of the request ends normally
RequestResponse(i) ==
  /\ i \in DOMAIN pending
  /\ pending[i].op # "request_document_symbols"
  /\ LET p == pending[i].path IN
     IF p = "" THEN UNCHANGED <<open_file_buffers, srv>>
     ELSE /\ open_file_buffers' = OpenFileExitBufs(open_file_buffers, p)
          /\ srv' = OpenFileExitSrv(srv, open_file_buffers, p)
  /\ pending' = Remove(pending, i)
  /\ ret' = Ret(pending[i].op, "ok", server_started, FALSE)
  /\ UNCHANGED <<server_started, scopes, cache, cache_has_changed, hist>>
  /\ UNCHANGED <<syncvars, locvars, symvars>>

\* the await raises (an error response) or the coroutine is cancelled
RequestFail(i, how) ==
  /\ i \in DOMAIN pending
  /\ LET p == pending[i].path IN
     IF p = "" THEN UNCHANGED <<open_file_buffers, srv>>
     ELSE /\ open_file_buffers' = OpenFileRaiseBufs(open_file_buffers, p)
          /\ srv' = OpenFileRaiseSrv(srv, open_file_buffers, p)
  /\ pending' = Remove(pending, i)
  /\ ret' = Ret(pending[i].op, how, server_started, FALSE)
  /\ UNCHANGED <<server_started, scopes, cache, cache_has_changed, hist>>
  /\ UNCHANGED <<syncvars, locvars, symvars>>

\* ------------------------------------------------ request_document_symbols
cache_key(p, include_body) == <<p, include_body>>

\* a lookup that never finds the entry
CacheHit_Never(c, key, file_data) == FALSE

\* the cache lookup under _cache_lock: the entry is served when its hash
\* equals the buffer's content_hash
CacheHit(c, key, file_data) ==
  key \in DOMAIN c /\ c[key].file_hash = file_data.content_hash

\* the entry stored once the child has answered.  for_text is not in the code:
\* it records the text the child held when it answered
CacheEntry(file_data, result, text) ==
  [file_hash |-> file_data.content_hash, result |-> result, for_text |-> text]

DocSymbolsCall(p, include_body) ==
  LET u == as_uri(p)
      key == cache_key(p, include_body)
      entered == OpenFileEnterBufs(open_file_buffers, p)
      entered_srv == OpenFileEnterSrv(srv, open_file_buffers, p)
      file_data == entered[u]
  IN
  /\ CanEnter(p)
  /\ IF ~server_started
       THEN /\ ret' = Ret("request_document_symbols",
                          NotStartedOutcome("request_document_symbols"), FALSE, FALSE)
            /\ UNCHANGED <<open_file_buffers, srv, pending>>
       ELSE IF CacheHit(cache, key, file_data)
       THEN /\ open_file_buffers' = OpenFileExitBufs(entered, p)
            /\ srv' = OpenFileExitSrv(entered_srv, entered, p)
            /\ ret' = [Ret("request_document_symbols", "cached", TRUE,
                           u \notin DOMAIN open_file_buffers)
                         EXCEPT !.fresh = (cache[key].for_text = file_data.contents),
                                !.result = cache[key].result,
                                !.prev = ret.last,
                                !.last = [how |-> "cached", key |-> key,
                                          result |-> cache[key].result]]
            /\ UNCHANGED pending
       ELSE /\ open_file_buffers' = entered
            /\ srv' = entered_srv
            /\ pending' = pending @@ (FreeId :> Req("request_document_symbols", p, include_body))
            /\ ret' = [Ret("request_document_symbols", "pending", TRUE, TRUE)
                         EXCEPT !.prev = ret.last]
  /\ UNCHANGED <<server_started, scopes, cache, cache_has_changed, hist>>
  /\ UNCHANGED <<syncvars, locvars, symvars>>

DocSymbolsResponse(i, answer) ==
  /\ i \in DOMAIN pending
  /\ pending[i].op = "request_document_symbols"
  /\ LET p == pending[i].path
         u == as_uri(p)
         file_data == open_file_buffers[u]
     IN /\ open_file_buffers' = OpenFileExitBufs(open_file_buffers, p)
        /\ srv' = OpenFileExitSrv(srv, open_file_buffers, p)
        /\ IF answer = NoAnswer
             THEN /\ UNCHANGED <<cache, cache_has_changed>>
                  /\ ret' = [Ret("request_document_symbols", "empty", server_started, FALSE)
                               EXCEPT !.result = "empty",
                                      !.last = [how |-> "empty",
                                                key |-> cache_key(p, pending[i].include_body),
                                                result |-> "empty"]]
             ELSE /\ cache' = [k \in DOMAIN cache \cup {cache_key(p, pending[i].include_body)} |->
                                IF k = cache_key(p, pending[i].include_body)
                                  THEN CacheEntry(file_data, answer, srv[u].text)
                                  ELSE cache[k]]
                  /\ cache_has_changed' = TRUE
                  /\ ret' = [Ret("request_document_symbols", "fetched", server_started, FALSE)
                               EXCEPT !.result = answer,
                                      !.last = [how |-> "fetched",
                                                key |-> cache_key(p, pending[i].include_body),
                                                result |-> answer]]
  /\ pending' = Remove(pending, i)
  /\ UNCHANGED <<server_started, scopes, hist>>
  /\ UNCHANGED <<syncvars, locvars, symvars>>

\* ------------------------------------------------------------ specifications
\* no stop() call since the last start()
NoStops == [in_row |-> 0, ran |-> FALSE, had_pending |-> FALSE, first |-> <<>>]

SyncInit ==
  /\ loop = "None"
  /\ loop_thread = "None"
  /\ thread = "none"
  /\ server_context = "None"
  /\ is_shutting_down = FALSE
  /\ sync_pc = "idle"
  /\ co_pc = "none"
  /\ process = "none"
  /\ sigterm = FALSE
  /\ server_process = FALSE
  /\ request = "none"
  /\ starts = 0
  /\ stop_log = NoStops

BufInit ==
  /\ server_started = FALSE
  /\ open_file_buffers = <<>>
  /\ srv = [u \in URIs |-> ClosedDoc]
  /\ scopes = [p \in Files |-> 0]
  /\ pending = <<>>
  /\ cache = <<>>
  /\ cache_has_changed = FALSE
  /\ hist = [p \in Files |-> NoHist]
  /\ ret = RetOf("init", "ok", FALSE, FALSE, NoDoc)

\* no exception
NoError == [type |-> "none", code |-> 0, cause |-> <<>>]

NoLocCall == [op |-> "none", outcome |-> "none", result |-> <<>>, dropped |-> 0,
              code |-> 0, raised |-> NoError, sync_raised |-> NoError]

LocInit ==
  /\ cache_uri_to_absolute_path = <<>>
  /\ cache_abs_to_relative_path = <<>>
  /\ loc_call = NoLocCall

NoSymCall == [line |-> 0, column |-> <<>>, strict |-> FALSE,
              outcome |-> "none", result |-> <<>>]

NoTreeCall == [within |-> <<>>, outcome |-> "none", result |-> <<>>,
               requested |-> <<>>]

\* no file at _cache_path
AbsentFile == [state |-> "absent", map |-> <<>>]

NoSave == [called |-> FALSE, dirty |-> FALSE, before |-> AbsentFile,
           cache |-> <<>>, write |-> "none"]

NotReturned == [returned |-> FALSE, cache |-> <<>>, cache_file |-> AbsentFile,
                write |-> "none", in_flight |-> FALSE]

FileVarsInit ==
  /\ cache_file = AbsentFile
  /\ save_log = NoSave
  /\ at_stop_return = NotReturned

NoRefsCall == [references |-> <<>>, include_imports |-> TRUE, include_self |-> FALSE,
               include_file_symbols |-> FALSE, outcome |-> "none", result |-> <<>>]

NoCompletion == [pc |-> "idle", path |-> "", allow_incomplete |-> FALSE,
                 response |-> "None", num_retries |-> 0, sent |-> 0,
                 result |-> "none"]

ReqVarsInit ==
  /\ refs_call = NoRefsCall
  /\ completion = NoCompletion

LockVarsInit ==
  /\ cache_lock = "free"
  /\ loop_pc = [at |-> "idle", path |-> "", include_body |-> FALSE]
  /\ caller_pc = "idle"
  /\ unlocked_access = FALSE

ThreadIdle == [at |-> "idle", seen |-> 0, stale |-> FALSE]

ExtVarsInit ==
  /\ LockVarsInit
  /\ race = [t \in {"caller", "loop"} |-> ThreadIdle]
  /\ alive_threads = 0
  /\ scope = "none"
  /\ diagnostics_store = <<>>
  /\ published = <<>>
  /\ diag_call = [called |-> FALSE, path |-> "", result |-> <<>>, notified |-> <<>>]
  /\ log_queue = <<>>
  /\ logs = <<>>
  /\ emitted = 0
  /\ log_poll = [at |-> "idle", requested |-> <<>>, next_start |-> 0]
  /\ delivered = <<>>

\* no _shutdown call yet, no child process
ShutVarsInit ==
  /\ sd_pc = "idle"
  /\ sd_log = <<>>
  /\ sd_wait = "none"
  /\ task_state = <<>>
  /\ server_tasks = {}
  /\ reader_tasks = {}
  /\ pipes = <<>>
  /\ start_pc = "none"

NoSyncCall == [method |-> "none", future |-> "none", caller |-> "idle",
               expired |-> FALSE, cancel_sent |-> FALSE]

CallVarsInit ==
  /\ timeout = "None"
  /\ sync_call = NoSyncCall

TreeVarsInit ==
  /\ tree_fs = {}
  /\ ignored_paths = {}
  /\ listdir_reversed = FALSE
  /\ tree_call = NoTreeCall
  /\ tree_calls = 0

SymInit ==
  /\ sym_file = [content |-> <<>>, symbols |-> <<>>]
  /\ sym_call = NoSymCall
  /\ TreeVarsInit
  /\ CallVarsInit
  /\ FileVarsInit
  /\ ShutVarsInit
  /\ ReqVarsInit
  /\ ExtVarsInit

Init ==
  /\ BufInit /\ SyncInit /\ LocInit /\ SymInit
  /\ is_windows = FALSE
  /\ relpath_outside = "None"

SyncFacadeInit ==
  /\ BufInit /\ SyncInit /\ LocInit /\ SymInit
  /\ is_windows \in BOOLEAN
  /\ relpath_outside = "None"

LocationInit ==
  /\ BufInit /\ SyncInit /\ LocInit /\ SymInit
  /\ is_windows = FALSE
  /\ relpath_outside \in {"None", "relpath"}

\* the registry, the scopes and the requests of every operation
Next ==
  \/ StartServer
  \/ ExitServer
  \/ \E p \in Files : OpenFile(p) \/ CloseFile(p) \/ CloseFileRaise(p)
  \/ \E op \in FileOps, p \in Files : RequestOnFile(op, p)
  \/ RequestWorkspaceSymbol
  \/ \E p \in Files : DocSymbolsCall(p, FALSE)
  \/ \E i \in 1..(MaxPending + 1) : RequestResponse(i)
  \/ \E i \in 1..(MaxPending + 1), how \in {"error", "cancelled"} : RequestFail(i, how)
  \/ \E i \in 1..(MaxPending + 1), a \in SymbolAnswers \cup {NoAnswer} : DocSymbolsResponse(i, a)

Spec == Init /\ [][Next]_vars

\* the positions a caller passes for the file: those of the open buffer
PositionsOf(p) ==
  IF as_uri(p) \in DOMAIN open_file_buffers
    THEN Positions(open_file_buffers[as_uri(p)].contents)
    ELSE {<<0, 0>>}

\* the registry under edits, and the child's mirror
EditNext ==
  \/ StartServer
  \/ \E p \in Files : OpenFile(p) \/ CloseFile(p)
  \/ \E p \in Files : \E ins \in InsertTexts, pos \in PositionsOf(p) :
        InsertText(p, pos[1], pos[2], ins, MaxVersion)
  \/ \E p \in Files : \E start, end \in PositionsOf(p) :
        DeleteText(p, start, end, MaxVersion)

EditSpec == Init /\ [][EditNext]_vars

\* the symbol cache under edits
CacheNext ==
  \/ StartServer
  \/ \E p \in Files : OpenFile(p) \/ CloseFile(p)
  \/ \E p \in Files : \E ins \in InsertTexts, pos \in PositionsOf(p) :
        InsertText(p, pos[1], pos[2], ins, MaxCacheEdits)
  \/ \E p \in Files : \E start, end \in PositionsOf(p) :
        DeleteText(p, start, end, MaxCacheEdits)
  \/ \E p \in Files : DocSymbolsCall(p, FALSE)
  \/ \E i \in 1..(MaxPending + 1), a \in {"symsA", NoAnswer} : DocSymbolsResponse(i, a)

CacheSpec == Init /\ [][CacheNext]_vars

\* ------------------------------------------------------------- save_cache
\* how the write of save_cache may end: open(path, "wb") and pickle.dump
\* succeed, open raises, or pickle.dump raises after open truncated the file
WriteOutcomes == {"ok", "open_fails", "dump_fails"}

CompleteFile(c) == [state |-> "complete", map |-> c]

\* the file a failed pickle.dump leaves: truncated by open, written in part
PartialFile == [state |-> "partial", map |-> <<>>]

\* the file after open(self._cache_path, "wb") and pickle.dump(cache, f)
FileAfterWrite(file, c, write) ==
  CASE write = "ok" -> CompleteFile(c)
    [] write = "open_fails" -> file
    [] OTHER -> PartialFile

\* _cache_has_changed after save_cache
DirtyAfterSave(dirty, write) == dirty /\ write # "ok"

\* LanguageServer.save_cache: <<the file, the dirty flag, the log entry>>
save_cache(c, dirty, file, write) ==
  [cache_file |-> IF dirty THEN FileAfterWrite(file, c, write) ELSE file,
   cache_has_changed |-> DirtyAfterSave(dirty, write),
   save_log |-> [called |-> TRUE, dirty |-> dirty, before |-> file, cache |-> c,
                 write |-> IF dirty THEN write ELSE "skipped"]]

\* save_cache called on the language server
SaveCache(write) ==
  LET s == save_cache(cache, cache_has_changed, cache_file, write) IN
  /\ cache_file' = s.cache_file
  /\ cache_has_changed' = s.cache_has_changed
  /\ save_log' = s.save_log
  /\ ret' = Ret("save_cache", "ok", server_started, FALSE)
  /\ UNCHANGED <<server_started, open_file_buffers, srv, scopes, pending, cache, hist>>
  /\ UNCHANGED <<syncvars, locvars, sym_file, sym_call, treevars, callvars,
                 at_stop_return, shutvars, start_pc, reqvars, extvars>>

\* the symbol cache and its file
SaveNext ==
  \/ StartServer
  \/ \E p \in Files : OpenFile(p) \/ CloseFile(p)
  \/ \E p \in Files : DocSymbolsCall(p, FALSE)
  \/ \E i \in 1..(MaxPending + 1), a \in SymbolAnswers \cup {NoAnswer} :
        DocSymbolsResponse(i, a)
  \/ \E write \in WriteOutcomes : SaveCache(write)

SaveSpec == Init /\ [][SaveNext]_vars

\* ------------------------------------------------------------ the sync facade
\* SyncLanguageServer.is_running
is_running(l, lt, t) == l # "None" /\ lt # "None" /\ t = "alive"

IsRunning == is_running(loop, loop_thread, thread)

\* the fields of the facade that stop() and start() assign
FacadeState(l, lt, ctx, flag) ==
  [loop |-> l, loop_thread |-> lt, server_context |-> ctx, is_shutting_down |-> flag]

\* a stop() call has returned: count it and keep the state the first one left
StopReturned(log, ran, had_pending, after) ==
  [in_row |-> log.in_row + 1, ran |-> log.ran \/ ran,
   had_pending |-> log.had_pending \/ had_pending,
   first |-> IF log.in_row = 0 THEN after ELSE log.first]

\* SyncLanguageServer.start on a facade whose references are cleared: a new
\* loop and thread, the server context entered on the loop, the child started
SyncStart ==
  /\ sync_pc = "idle"
  /\ loop = "None"
  /\ co_pc \in {"none", "done"}
  /\ starts < MaxStarts
  /\ loop' = "set"
  /\ loop_thread' = "set"
  /\ thread' = "alive"
  /\ server_context' = "set"
  /\ server_started' = TRUE
  /\ process' = "running"
  /\ sigterm' = FALSE
  /\ server_process' = TRUE
  /\ co_pc' = "none"
  /\ request' = "none"
  /\ starts' = starts + 1
  /\ stop_log' = NoStops
  /\ alive_threads' = alive_threads + 1
  /\ UNCHANGED <<is_shutting_down, is_windows, sync_pc>>
  /\ UNCHANGED <<bufvars, locvars, sym_file, sym_call, treevars, callvars, filevars,
                 shutvars, start_pc, reqvars, ext_rest>>

\* a facade request (request_workspace_symbol): a coroutine submitted to the
\* loop, whose future the calling thread waits for
SyncRequest ==
  /\ loop = "set"
  /\ thread = "alive"
  /\ request = "none"
  /\ request' = "pending"
  /\ UNCHANGED <<loop, loop_thread, thread, server_context, is_shutting_down,
                 is_windows, sync_pc, co_pc, process, sigterm, server_process,
                 starts, stop_log>>
  /\ UNCHANGED <<server_started, bufvars, locvars, symvars>>

\* the child answers and the loop resolves the future
SyncResponse ==
  /\ request = "pending"
  /\ process = "running"
  /\ thread = "alive"
  /\ request' = "result"
  /\ UNCHANGED <<loop, loop_thread, thread, server_context, is_shutting_down,
                 is_windows, sync_pc, co_pc, process, sigterm, server_process,
                 starts, stop_log>>
  /\ UNCHANGED <<server_started, bufvars, locvars, symvars>>

\* SyncLanguageServer.stop up to its first wait: the flag, the is_running
\* check, save_cache, and the platform's way to stop the loop
SyncStop ==
  /\ sync_pc = "idle"
  /\ stop_log.in_row < MaxStops
  /\ IF ~is_shutting_down /\ IsRunning
       THEN \E write \in WriteOutcomes :
              LET s == save_cache(cache, cache_has_changed, cache_file, write) IN
              /\ cache_file' = s.cache_file
              /\ cache_has_changed' = s.cache_has_changed
              /\ save_log' = s.save_log
       ELSE UNCHANGED <<cache_file, cache_has_changed, save_log>>
  /\ UNCHANGED <<server_started, open_file_buffers, srv, scopes, pending, cache, hist, ret>>
  /\ UNCHANGED <<loop, loop_thread, server_context, is_windows, process, sigterm,
                 server_process, request, starts>>
  /\ UNCHANGED <<locvars, sym_file, sym_call, treevars, callvars, at_stop_return,
                 shutvars, start_pc, reqvars, ext_rest>>
  /\ IF is_shutting_down
       THEN /\ stop_log' = StopReturned(stop_log, FALSE, FALSE,
                             FacadeState(loop, loop_thread, server_context, is_shutting_down))
            /\ UNCHANGED <<is_shutting_down, sync_pc, co_pc, thread, alive_threads>>
       ELSE /\ is_shutting_down' = TRUE
            /\ IF ~IsRunning
                 THEN /\ stop_log' = StopReturned(stop_log, FALSE, FALSE,
                                       FacadeState(loop, loop_thread, server_context, TRUE))
                      /\ UNCHANGED <<sync_pc, co_pc, thread, alive_threads>>
                 ELSE /\ stop_log' = [stop_log EXCEPT !.had_pending = (request = "pending")]
                      /\ IF is_windows
                           THEN /\ thread' \in {"exited", "stuck"}
                                /\ alive_threads' = IF thread' = "exited"
                                                      THEN alive_threads - 1
                                                      ELSE alive_threads
                                /\ sync_pc' = "join_windows"
                                /\ UNCHANGED co_pc
                           ELSE /\ co_pc' = "queued"
                                /\ sync_pc' = "join"
                                /\ UNCHANGED <<thread, alive_threads>>

\* stop(): loop_thread.join(timeout=shutdown_timeout); nothing stops the loop,
\* so the join ends by its timeout
SyncStopJoin ==
  /\ sync_pc = "join"
  /\ thread = "alive"
  /\ sync_pc' = "wait_future"
  /\ UNCHANGED <<loop, loop_thread, thread, server_context, is_shutting_down,
                 is_windows, co_pc, process, sigterm, server_process, request,
                 starts, stop_log>>
  /\ UNCHANGED <<server_started, bufvars, locvars, symvars>>

\* stop(): the references are cleared and the flag reset, after
\* shutdown_future.result(timeout=2.0) returned or timed out and loop.close()
\* failed on the running loop (non-Windows), or after the short join (Windows)
SyncStopFinish ==
  /\ sync_pc \in {"wait_future", "join_windows"}
  /\ loop' = "None"
  /\ loop_thread' = "None"
  /\ server_context' = "None"
  /\ is_shutting_down' = FALSE
  /\ sync_pc' = "idle"
  /\ stop_log' = StopReturned(stop_log, TRUE, stop_log.had_pending,
                              FacadeState("None", "None", "None", FALSE))
  /\ at_stop_return' = [returned |-> TRUE, cache |-> cache,
                        cache_file |-> cache_file, write |-> save_log.write,
                        in_flight |-> stop_log.had_pending]
  /\ UNCHANGED <<thread, is_windows, co_pc, process, sigterm, server_process,
                 request, starts>>
  /\ UNCHANGED <<server_started, bufvars, locvars, sym_file, sym_call, treevars,
                 callvars, cache_file, save_log, shutvars, start_pc, reqvars, extvars>>

\* _shutdown_and_stop_loop starts on the loop: __aexit__ of the server context
\* (LanguageServer.start_server: server_started = False, then _shutdown, which
\* returns at once when the handler has no process)
ShutdownEnter ==
  /\ co_pc = "queued"
  /\ thread = "alive"
  /\ IF server_context = "set"
       THEN /\ server_started' = FALSE
            /\ co_pc' = IF server_process THEN "stage1" ELSE "finally"
       ELSE /\ co_pc' = "finally"
            /\ UNCHANGED server_started
  /\ UNCHANGED <<loop, loop_thread, thread, server_context, is_shutting_down,
                 is_windows, sync_pc, process, sigterm, server_process, request,
                 starts, stop_log>>
  /\ UNCHANGED <<bufvars, locvars, symvars>>

\* _shutdown stages 1 and 2: the shutdown request (at most 2 s), stdin closed,
\* process.terminate()
ShutdownTerminate ==
  /\ co_pc = "stage1"
  /\ thread = "alive"
  /\ sigterm' = TRUE
  /\ co_pc' = "wait"
  /\ UNCHANGED <<loop, loop_thread, thread, server_context, is_shutting_down,
                 is_windows, sync_pc, process, server_process, request, starts,
                 stop_log>>
  /\ UNCHANGED <<server_started, bufvars, locvars, symvars>>

\* the child exits on the terminate signal (it may also ignore it)
ChildExits ==
  /\ process = "running"
  /\ sigterm
  /\ process' = "exited"
  /\ UNCHANGED <<loop, loop_thread, thread, server_context, is_shutting_down,
                 is_windows, sync_pc, co_pc, sigterm, server_process, request,
                 starts, stop_log>>
  /\ UNCHANGED <<server_started, bufvars, locvars, symvars>>

\* _shutdown: the wait for the child ends, by its exit or by the timeout and
\* stage 3 (process.kill() and the wait for the killed child)
ShutdownWait ==
  /\ co_pc = "wait"
  /\ thread = "alive"
  /\ process' = "exited"
  /\ co_pc' = "stage4"
  /\ UNCHANGED <<loop, loop_thread, thread, server_context, is_shutting_down,
                 is_windows, sync_pc, sigterm, server_process, request, starts,
                 stop_log>>
  /\ UNCHANGED <<server_started, bufvars, locvars, symvars>>

\* _shutdown stage 4: reader tasks cancelled, pipes closed, the handler's
\* process reference cleared
ShutdownCleanup ==
  /\ co_pc = "stage4"
  /\ thread = "alive"
  /\ server_process' = FALSE
  /\ co_pc' = "finally"
  /\ UNCHANGED <<loop, loop_thread, thread, server_context, is_shutting_down,
                 is_windows, sync_pc, process, sigterm, request, starts, stop_log>>
  /\ UNCHANGED <<server_started, bufvars, locvars, symvars>>

\* the tasks _shutdown_and_stop_loop cancels in its finally block
CancelPendingTasks(l, t, r) ==
  IF l # "None" /\ t = "alive" /\ r = "pending" THEN "cancelled" ELSE r

\* _shutdown_and_stop_loop, finally block
ShutdownFinally ==
  /\ co_pc = "finally"
  /\ thread = "alive"
  /\ request' = CancelPendingTasks(loop, thread, request)
  /\ co_pc' = "done"
  /\ UNCHANGED <<loop, loop_thread, thread, server_context, is_shutting_down,
                 is_windows, sync_pc, process, sigterm, server_process, starts,
                 stop_log>>
  /\ UNCHANGED <<server_started, bufvars, locvars, symvars>>

\* the sync facade: start, stop, a request in flight, the shutdown coroutine
SyncNext ==
  \/ SyncStart
  \/ SyncRequest
  \/ SyncResponse
  \/ SyncStop
  \/ SyncStopJoin
  \/ SyncStopFinish
  \/ ShutdownEnter
  \/ ShutdownTerminate
  \/ ChildExits
  \/ ShutdownWait
  \/ ShutdownCleanup
  \/ ShutdownFinally

SyncSpec == SyncFacadeInit /\ [][SyncNext]_vars

\* the child answers the textDocument/documentSymbol request of a
\* request_document_symbols coroutine that runs on the loop: the entry is
\* stored and the future resolved; the file the coroutine opened is closed again
SyncDocSymbolsResponse(answer) ==
  /\ request = "pending"
  /\ process = "running"
  /\ thread = "alive"
  /\ request' = "result"
  /\ LET key == cache_key("a.py", FALSE)
         file_data == LSPFileBuffer(as_uri("a.py"), read_file("a.py"), 0, 1)
     IN cache' = [k \in DOMAIN cache \cup {key} |->
                   IF k = key THEN CacheEntry(file_data, answer, read_file("a.py"))
                   ELSE cache[k]]
  /\ cache_has_changed' = TRUE
  /\ UNCHANGED <<loop, loop_thread, thread, server_context, is_shutting_down,
                 is_windows, sync_pc, co_pc, process, sigterm, server_process,
                 starts, stop_log>>
  /\ UNCHANGED <<server_started, open_file_buffers, srv, scopes, pending, hist, ret,
                 locvars, symvars>>

\* the sync facade with request_document_symbols calls and the cache file
PersistNext ==
  \/ SyncStart
  \/ SyncRequest
  \/ \E answer \in SymbolAnswers : SyncDocSymbolsResponse(answer)
  \/ SyncStop
  \/ SyncStopJoin
  \/ SyncStopFinish
  \/ ShutdownEnter
  \/ ShutdownTerminate
  \/ ChildExits
  \/ ShutdownWait
  \/ ShutdownCleanup
  \/ ShutdownFinally

PersistSpec == SyncFacadeInit /\ [][PersistNext]_vars

\* ------------------------------------- the facade's blocking request methods
\* the request methods of SyncLanguageServer
SyncMethods ==
  {"request_definition", "request_references", "request_references_with_content",
   "request_completions", "request_document_symbols", "request_full_symbol_tree",
   "request_dir_overview", "request_document_overview", "request_overview",
   "request_hover", "request_document_diagnostic", "request_code_action",
   "request_workspace_symbol", "request_parsed_files",
   "request_referencing_symbols", "request_containing_symbol",
   "request_container_of_symbol", "request_defining_symbol"}

\* the timeout the method passes to future.result(), for the configured one
ResultTimeout(method, configured) ==
  IF method \in {"request_references_with_content", "request_document_symbols",
                 "request_overview", "request_parsed_files"}
    THEN "None"
    ELSE configured

\* a request method is called: the coroutine is submitted to the loop and the
\* calling thread waits in future.result()
SyncCall(method) ==
  /\ IsRunning
  /\ sync_call.caller # "blocked"
  /\ sync_call.future # "pending"
  /\ sync_call' = [method |-> method, future |-> "pending", caller |-> "blocked",
                   expired |-> FALSE, cancel_sent |-> FALSE]
  /\ UNCHANGED <<server_started, bufvars, syncvars, locvars, sym_file, sym_call,
                 treevars, timeout, filevars, shutvars, start_pc, reqvars, extvars>>

\* the coroutine completes: a caller that still waits receives the result
SyncCallCompletes ==
  /\ sync_call.future = "pending"
  /\ sync_call' = [sync_call EXCEPT !.future = "done",
                     !.caller = IF @ = "blocked" THEN "result" ELSE @]
  /\ UNCHANGED <<server_started, bufvars, syncvars, locvars, sym_file, sym_call,
                 treevars, timeout, filevars, shutvars, start_pc, reqvars, extvars>>

\* the configured timeout elapses while the coroutine has not completed:
\* future.result(timeout=t) raises TimeoutError and leaves the future alone,
\* future.result() keeps waiting
SyncCallTimeoutElapses ==
  /\ timeout = "set"
  /\ sync_call.future = "pending"
  /\ sync_call.caller = "blocked"
  /\ ~sync_call.expired
  /\ sync_call' = [sync_call EXCEPT !.expired = TRUE,
                     !.caller = IF ResultTimeout(sync_call.method, timeout) = "None"
                                  THEN "blocked" ELSE "TimeoutError"]
  /\ UNCHANGED <<server_started, bufvars, syncvars, locvars, sym_file, sym_call,
                 treevars, timeout, filevars, shutvars, start_pc, reqvars, extvars>>

TimeoutInit ==
  /\ BufInit /\ SyncInit /\ LocInit
  /\ is_windows = FALSE
  /\ relpath_outside = "None"
  /\ sym_file = [content |-> <<>>, symbols |-> <<>>]
  /\ sym_call = NoSymCall
  /\ TreeVarsInit
  /\ timeout \in {"None", "set"}
  /\ sync_call = NoSyncCall
  /\ FileVarsInit
  /\ ShutVarsInit
  /\ ReqVarsInit
  /\ ExtVarsInit

TimeoutNext ==
  \/ SyncStart
  \/ \E method \in SyncMethods : SyncCall(method)
  \/ SyncCallCompletes
  \/ SyncCallTimeoutElapses

TimeoutSpec == TimeoutInit /\ [][TimeoutNext]_vars

\* ------------------------------------------------- paths, URIs, locations
\* a path is the sequence of its components; a file URI is the scheme
\* followed by the percent-encoded components
repository_root_path == <<"repo">>

LocationURIs == {<<"file:", "repo", "a.go">>,
                 <<"file:", "repo", "my%20dir", "s.go">>,
                 <<"file:", "repo", "vendor", "v.go">>,
                 <<"file:", "repo", "gone.go">>,
                 <<"file:", "usr", "x.go">>}

\* the files that exist on disk
ExistingPaths == {<<"repo", "a.go">>, <<"repo", "my dir", "s.go">>,
                  <<"repo", "vendor", "v.go">>, <<"usr", "x.go">>}

\* urllib.parse.unquote on one component
unquote(c) == IF c = "my%20dir" THEN "my dir" ELSE c

\* PathUtils.uri_to_path
uri_to_path(uri) == [i \in 1..(Len(uri) - 1) |-> unquote(uri[i + 1])]

IsPrefix(a, b) == Len(a) <= Len(b) /\ SubSeq(b, 1, Len(a)) = a

\* PathUtils.get_relative_path; <<>> stands for None. Outside the root the
\* answer is None or the path that climbs out of the root with ".."
get_relative_path(path, base, outside) ==
  IF IsPrefix(base, path) THEN SubSeq(path, Len(base) + 1, Len(path))
  ELSE IF outside = "None" THEN <<>>
  ELSE [i \in 1..Len(base) |-> ".."] \o path

\* os.path.join(repository_root_path, relative_path), normalised
RECURSIVE join(_, _)
join(base, rel) ==
  IF rel = <<>> THEN base
  ELSE IF rel[1] = ".." THEN join(SubSeq(base, 1, Len(base) - 1), Tail(rel))
  ELSE join(Append(base, rel[1]), Tail(rel))

\* UriPathMapper.uri_to_absolute_path: <<path, cache after>>
uri_to_absolute_path(c, uri) ==
  IF uri \in DOMAIN c THEN <<c[uri], c>>
  ELSE <<uri_to_path(uri), c @@ (uri :> uri_to_path(uri))>>

\* UriPathMapper.absolute_to_relative_path: <<relative path, cache after>>
absolute_to_relative_path(c, absolute_path, outside) ==
  IF absolute_path \in DOMAIN c THEN <<c[absolute_path], c>>
  ELSE LET relative_path == get_relative_path(absolute_path, repository_root_path, outside)
       IN <<relative_path,
            IF relative_path # <<>> THEN c @@ (absolute_path :> relative_path) ELSE c>>

\* UriPathMapper.enrich_location: <<location, uri cache, path cache>>
enrich_location(cu, ca, location, outside) ==
  IF "uri" \notin DOMAIN location THEN <<location, cu, ca>>
  ELSE
    LET a == uri_to_absolute_path(cu, location["uri"])
        l1 == IF "absolutePath" \notin DOMAIN location
                THEN location @@ ("absolutePath" :> a[1]) ELSE location
        cu1 == IF "absolutePath" \notin DOMAIN location THEN a[2] ELSE cu
        r == absolute_to_relative_path(ca, l1["absolutePath"], outside)
    IN IF "relativePath" \in DOMAIN l1 THEN <<l1, cu1, ca>>
       ELSE <<IF r[1] # <<>> THEN l1 @@ ("relativePath" :> r[1]) ELSE l1, cu1, r[2]>>

\* Gopls.is_ignored_dirname: a leading dot, or one of the vendored directories
is_ignored_dirname(dirname) ==
  dirname \in {".git", "..", "vendor", "node_modules", "dist", "build"}

\* LanguageServer.is_ignored_path raises FileNotFoundError unless the file exists
path_exists(relative_path) ==
  join(repository_root_path, relative_path) \in ExistingPaths

\* LanguageServer.is_ignored_path for an existing source file: whether a
\* directory part of the path is ignored
is_ignored_path(relative_path) ==
  \E i \in 1..(Len(relative_path) - 1) : is_ignored_dirname(relative_path[i])

\* what the child may answer to a location request
LspRange == <<0, 0>>

Location(uri) == ("uri" :> uri) @@ ("range" :> LspRange)

LocationLink(uri) ==
  ("targetUri" :> uri) @@ ("targetRange" :> LspRange) @@
  ("targetSelectionRange" :> LspRange) @@ ("originSelectionRange" :> LspRange)

Unexpected == ("name" :> <<"x">>)

LocationItems ==
  {Location(u) : u \in LocationURIs} \cup
  {LocationLink(<<"file:", "usr", "x.go">>)} \cup
  {Unexpected}

LocationResponses ==
  UNION {[1..k -> LocationItems] : k \in 0..MaxLocations}

\* the state of a location request while its response is processed
LocAcc(cu, ca) == [ret |-> <<>>, cu |-> cu, ca |-> ca, outcome |-> "ok", dropped |-> 0]

LocAppend(acc, e) ==
  [acc EXCEPT !.ret = Append(@, e[1]), !.cu = e[2], !.ca = e[3]]

\* request_definition, one item of a list response
DefinitionItem(acc, item, outside) ==
  IF "uri" \in DOMAIN item /\ "range" \in DOMAIN item
    THEN LocAppend(acc, enrich_location(acc.cu, acc.ca, item, outside))
  ELSE IF {"originSelectionRange", "targetUri", "targetRange",
           "targetSelectionRange"} \subseteq DOMAIN item
    THEN LocAppend(acc, enrich_location(acc.cu, acc.ca,
                          ("uri" :> item["targetUri"]) @@
                          ("range" :> item["targetSelectionRange"]), outside))
  ELSE acc

\* a filter that keeps every location
ReferenceKept_Always(enriched_location) == TRUE

\* request_references keeps an enriched location unless its relativePath is
\* present and ignored
ReferenceKept(enriched_location) ==
  ~("relativePath" \in DOMAIN enriched_location
    /\ is_ignored_path(enriched_location["relativePath"]))

\* request_references, one item of the response
ReferenceItem(acc, item, outside) ==
  IF acc.outcome # "ok" THEN acc
  ELSE IF ~("uri" \in DOMAIN item /\ "range" \in DOMAIN item)
    THEN [acc EXCEPT !.outcome = "AssertionError"]
  ELSE
    LET e == enrich_location(acc.cu, acc.ca, item, outside) IN
    IF "relativePath" \in DOMAIN e[1]
       /\ ~path_exists(e[1]["relativePath"])
      THEN [acc EXCEPT !.cu = e[2], !.ca = e[3], !.outcome = "FileNotFoundError"]
    ELSE IF ReferenceKept(e[1]) THEN LocAppend(acc, e)
    ELSE [acc EXCEPT !.cu = e[2], !.ca = e[3], !.dropped = @ + 1]

RECURSIVE DefinitionItems(_, _, _)
DefinitionItems(acc, items, outside) ==
  IF items = <<>> THEN acc
  ELSE DefinitionItems(DefinitionItem(acc, Head(items), outside), Tail(items), outside)

RECURSIVE ReferenceItems(_, _, _)
ReferenceItems(acc, items, outside) ==
  IF items = <<>> THEN acc
  ELSE ReferenceItems(ReferenceItem(acc, Head(items), outside), Tail(items), outside)

\* the child answers a request_definition or request_references: the scope
\* of the request ends, then the response is turned into the returned list
LocationResponse(i, response) ==
  /\ i \in DOMAIN pending
  /\ pending[i].op \in {"request_definition", "request_references"}
  /\ open_file_buffers' = OpenFileExitBufs(open_file_buffers, pending[i].path)
  /\ srv' = OpenFileExitSrv(srv, open_file_buffers, pending[i].path)
  /\ pending' = Remove(pending, i)
  /\ LET acc == IF pending[i].op = "request_definition"
                  THEN DefinitionItems(LocAcc(cache_uri_to_absolute_path,
                                              cache_abs_to_relative_path),
                                       response, relpath_outside)
                  ELSE ReferenceItems(LocAcc(cache_uri_to_absolute_path,
                                             cache_abs_to_relative_path),
                                      response, relpath_outside)
     IN /\ cache_uri_to_absolute_path' = acc.cu
        /\ cache_abs_to_relative_path' = acc.ca
        /\ loc_call' = [op |-> pending[i].op, outcome |-> acc.outcome,
                        result |-> IF acc.outcome = "ok" THEN acc.ret ELSE <<>>,
                        dropped |-> IF acc.outcome = "ok" THEN acc.dropped ELSE 0,
                        code |-> 0, raised |-> NoError, sync_raised |-> NoError]
        /\ ret' = Ret(pending[i].op, acc.outcome, server_started, FALSE)
  /\ UNCHANGED <<server_started, scopes, cache, cache_has_changed, hist>>
  /\ UNCHANGED <<syncvars, relpath_outside, symvars>>

\* the code of the LSP error InternalError
InternalError == -32603

\* the codes of the error responses the child may give: InternalError,
\* InvalidParams, ContentModified
LspErrorCodes == {InternalError, -32602, -32801}

\* the Error the protocol handler raises for an error response
Error(code) == [type |-> "Error", code |-> code, cause |-> <<>>]

\* RuntimeError(...) from e
RuntimeErrorFrom(e) == [type |-> "RuntimeError", code |-> 0, cause |-> <<e>>]

\* an except clause that re-raises every exception as it is
references_except_Unwrapped(e) == e

\* LanguageServer.request_references, the except clause around the request
references_except(e) ==
  IF e.type = "Error" /\ e.code = InternalError THEN RuntimeErrorFrom(e) ELSE e

\* SyncLanguageServer.request_references, the except clause around
\* future.result(): the future raises what the coroutine raised
sync_references_except(e) ==
  IF e.type = "Error" /\ e.code = InternalError THEN RuntimeErrorFrom(e) ELSE e

\* the child answers a request_references with an error response: the await
\* raises inside the open_file scope
ReferencesError(i, code) ==
  /\ i \in DOMAIN pending
  /\ pending[i].op = "request_references"
  /\ open_file_buffers' = OpenFileRaiseBufs(open_file_buffers, pending[i].path)
  /\ srv' = OpenFileRaiseSrv(srv, open_file_buffers, pending[i].path)
  /\ pending' = Remove(pending, i)
  /\ loc_call' = [op |-> "request_references", outcome |-> "raised",
                  result |-> <<>>, dropped |-> 0, code |-> code,
                  raised |-> references_except(Error(code)),
                  sync_raised |-> sync_references_except(references_except(Error(code)))]
  /\ ret' = Ret("request_references", "error", server_started, FALSE)
  /\ UNCHANGED <<server_started, scopes, cache, cache_has_changed, hist>>
  /\ UNCHANGED <<syncvars, cache_uri_to_absolute_path, cache_abs_to_relative_path,
                 relpath_outside, symvars>>

\* request_definition and request_references with the child's answers
LocationNext ==
  \/ StartServer
  \/ \E op \in {"request_definition", "request_references"}, p \in Files :
        RequestOnFile(op, p)
  \/ \E i \in 1..(MaxPending + 1), response \in LocationResponses :
        LocationResponse(i, response)

LocationSpec == LocationInit /\ [][LocationNext]_vars

\* request_references with the child's error responses
ReferencesErrorNext ==
  \/ StartServer
  \/ \E p \in Files : OpenFile(p) \/ CloseFile(p)
  \/ \E p \in Files : RequestOnFile("request_references", p)
  \/ \E i \in 1..(MaxPending + 1), response \in {<<>>, <<Location(<<"file:", "repo", "a.go">>)>>} :
        LocationResponse(i, response)
  \/ \E i \in 1..(MaxPending + 1), code \in LspErrorCodes : ReferencesError(i, code)

ReferencesErrorSpec == LocationInit /\ [][ReferencesErrorNext]_vars

\* ------------------------------------------------ request_containing_symbol
\* content.split("\n")
RECURSIVE split(_)
split(text) ==
  IF NLCount(text) = 0 THEN <<text>>
  ELSE LET i == CHOOSE k \in 1..Len(text) :
                  text[k] = NL /\ \A j \in 1..(k - 1) : text[j] # NL
       IN <<SubSeq(text, 1, i - 1)>> \o split(SubSeq(text, i + 1, Len(text)))

\* str.strip() == ""
IsBlank(line_text) == \A k \in 1..Len(line_text) : line_text[k] = " "

Position(line, character) == [line |-> line, character |-> character]

Range(start, end) == [start |-> start, end |-> end]

\* the kinds request_containing_symbol accepts as containers
container_symbol_kinds == {"Method", "Function", "Class"}

\* is_position_in_range of request_containing_symbol; column is <<>> for
\* None and <<c>> for a column c
is_position_in_range_EndUnchecked(line, column, strict, range_d) ==
  range_d["start"]["line"] <= line

is_position_in_range(line, column, strict, range_d) ==
  LET start == range_d["start"]
      end == range_d["end"]
      line_condition == IF strict THEN end["line"] >= line /\ line > start["line"]
                        ELSE end["line"] >= line /\ line >= start["line"]
      column_condition ==
        IF column # <<>> /\ line = start["line"]
          THEN IF strict THEN column[1] > start["character"]
               ELSE column[1] >= start["character"]
          ELSE TRUE
  IN line_condition /\ column_condition

\* max(containing_symbols, key=start line): the first of the greatest
FirstMaxByStartLine_First(ss) == ss[1]

FirstMaxByStartLine(ss) ==
  LET i == CHOOSE k \in 1..Len(ss) :
             /\ \A j \in 1..Len(ss) : ss[j].range["start"]["line"] <= ss[k].range["start"]["line"]
             /\ \A j \in 1..(k - 1) : ss[j].range["start"]["line"] < ss[k].range["start"]["line"]
  IN ss[i]

\* request_containing_symbol after the empty-line check: <<>> for None
containing_symbol_AnySymbol(symbols, line, column, strict) ==
  LET Contains(s) == is_position_in_range(line, column, strict, s.range)
      containing_symbols == SelectSeq(symbols, Contains)
  IN IF containing_symbols = <<>> THEN <<>>
     ELSE <<FirstMaxByStartLine(containing_symbols)>>

containing_symbol(symbols, line, column, strict) ==
  LET IsContainer(s) == /\ s.kind \in container_symbol_kinds
                        /\ s.range["start"]["line"] # s.range["end"]["line"]
      IsVariable(s) == s.kind = "Variable"
      candidate_containers == SelectSeq(symbols, IsContainer) \o SelectSeq(symbols, IsVariable)
      Contains(s) == is_position_in_range(line, column, strict, s.range)
      containing_symbols == SelectSeq(candidate_containers, Contains)
  IN IF containing_symbols = <<>> THEN <<>>
     ELSE <<FirstMaxByStartLine(containing_symbols)>>

\* the files and document symbols of the bounded environment
RECURSIVE LinesText(_)
LinesText(n) == IF n = 0 THEN <<"a">> ELSE LinesText(n - 1) \o <<NL, "a">>

\* the file: MaxLine + 1 lines of text and a last line of blanks
SymContent == LinesText(MaxLine) \o <<NL, " ">>

SymPositions == {Position(l, c) : l \in 0..MaxLine, c \in 0..MaxCol}

SymRanges ==
  {Range(s, e) : s \in SymPositions, e \in SymPositions} \cap
  {r \in [start : SymPositions, end : SymPositions] :
      \/ r.start.line < r.end.line
      \/ r.start.line = r.end.line /\ r.start.character <= r.end.character}

SymbolUniverse ==
  [kind : {"Function", "Variable", "Module"}, range : SymRanges]

SymbolLists == UNION {[1..k -> SymbolUniverse] : k \in 0..MaxSymbols}

\* request_containing_symbol(relative_file_path, line, column, strict) on the
\* file whose document symbols are sym_file.symbols
RequestContainingSymbol(line, column, strict) ==
  /\ sym_call.outcome = "none"
  /\ sym_call' =
       [line |-> line, column |-> column, strict |-> strict,
        outcome |-> IF ~server_started THEN "NotStarted" ELSE "ok",
        result |-> IF ~server_started \/ IsBlank(split(sym_file.content)[line + 1])
                     THEN <<>>
                     ELSE containing_symbol(sym_file.symbols, line, column, strict)]
  /\ ret' = Ret("request_containing_symbol",
                IF ~server_started THEN "NotStarted" ELSE "ok", server_started, FALSE)
  /\ UNCHANGED <<server_started, open_file_buffers, srv, scopes, pending, cache,
                 cache_has_changed, hist, sym_file>>
  /\ UNCHANGED <<syncvars, locvars, treevars, callvars, filevars, shutvars, start_pc, reqvars, extvars>>

SymbolInit ==
  /\ BufInit /\ SyncInit /\ LocInit
  /\ is_windows = FALSE
  /\ relpath_outside = "None"
  /\ sym_file \in [content : {SymContent}, symbols : SymbolLists]
  /\ sym_call = NoSymCall
  /\ TreeVarsInit
  /\ CallVarsInit
  /\ FileVarsInit
  /\ ShutVarsInit
  /\ ReqVarsInit
  /\ ExtVarsInit

SymbolNext ==
  \/ StartServer
  \/ \E line \in 0..(MaxLine + 1), column \in {<<>>} \cup {<<c>> : c \in 0..MaxCol},
        strict \in BOOLEAN : RequestContainingSymbol(line, column, strict)

SymbolSpec == SymbolInit /\ [][SymbolNext]_vars

\* ------------------------------------------------ request_full_symbol_tree
\* the regular files a repository may hold, as paths relative to its root
TreeFiles == {<<"src", "a.go">>, <<"src", "b.go">>, <<"src", "notes.txt">>,
              <<"src", ".git", "h.go">>, <<"vendor", "c.go">>,
              <<"gen", "g.go">>, <<"top.go">>}

\* the values of config.ignored_paths: no pattern, or the directory name "gen"
IgnoredPathsConfigs == {{}, {"gen"}}

\* the values of within_relative_path; <<>> stands for None
WithinPaths == {<<>>, <<"src">>, <<"vendor">>, <<"gen">>, <<"src", "a.go">>,
                <<"src", "notes.txt">>, <<"missing">>}

\* os.path.isfile, os.path.isdir and os.path.exists under the root
isfile(fs, rel) == rel \in fs

isdir(fs, rel) ==
  rel = <<>> \/ \E f \in fs : Len(f) > Len(rel) /\ IsPrefix(rel, f)

exists(fs, rel) == isfile(fs, rel) \/ isdir(fs, rel)

\* the source-file matcher of the language: Go sources
is_relevant_filename(name) == name \in {"a.go", "b.go", "c.go", "g.go", "h.go", "top.go"}

\* PathSpec.match_file for patterns that are directory names: the path or
\* one of its parents bears the name
match_file(patterns, rel) == \E i \in 1..Len(rel) : rel[i] \in patterns

\* LanguageServer.is_ignored_path for a path that exists
is_ignored_path_in(fs, patterns, relative_path) ==
  LET is_file == isfile(fs, relative_path)
      dir_parts == IF is_file
                     THEN SubSeq(relative_path, 1, Len(relative_path) - 1)
                     ELSE relative_path
  IN IF is_file /\ ~is_relevant_filename(relative_path[Len(relative_path)])
       THEN TRUE
     ELSE IF \E i \in 1..Len(dir_parts) : is_ignored_dirname(dir_parts[i])
       THEN TRUE
     ELSE match_file(patterns, relative_path)

\* the names os.listdir may report, in one order
NameOrder == <<".git", "a.go", "b.go", "gen", "notes.txt", "src", "top.go",
               "vendor", "c.go", "g.go", "h.go">>

Reverse(s) == [i \in 1..Len(s) |-> s[Len(s) + 1 - i]]

\* os.listdir(abs_dir_path): the entries of the directory, in arbitrary order
listdir(fs, rel_dir, reversed) ==
  LET names == {f[Len(rel_dir) + 1] : f \in {g \in fs : Len(g) > Len(rel_dir)
                                                       /\ IsPrefix(rel_dir, g)}}
      listed == SelectSeq(NameOrder, LAMBDA n : n \in names)
  IN IF reversed THEN Reverse(listed) ELSE listed

\* os.path.splitext(name)[0]
splitext(name) ==
  CASE name = "a.go" -> "a" [] name = "b.go" -> "b" [] name = "c.go" -> "c"
    [] name = "g.go" -> "g" [] name = "h.go" -> "h" [] name = "top.go" -> "top"
    [] name = "notes.txt" -> "notes" [] OTHER -> name

\* os.path.basename(abs_dir_path)
basename(rel_dir) ==
  IF rel_dir = <<>> THEN repository_root_path[Len(repository_root_path)]
  ELSE rel_dir[Len(rel_dir)]

UnifiedSymbolInformation(name, kind, relativePath, children) ==
  [name |-> name, kind |-> kind, relativePath |-> relativePath,
   children |-> children]

\* the root nodes request_document_symbols returns for a file: the cached
\* entry, or what the child answers (none for a null answer).  The answer
\* symsB is a class with a method nested in it, every other answer one
\* function
file_root_nodes(c, rel, answer) ==
  LET key == cache_key(rel, FALSE)
      file_data == LSPFileBuffer(rel, read_file(rel), 0, 1)
      result == IF CacheHit(c, key, file_data) THEN c[key].result ELSE answer
  IN IF result = NoAnswer THEN <<>>
     ELSE IF result = "symsB"
       THEN <<UnifiedSymbolInformation("C", "Class", rel,
                <<UnifiedSymbolInformation("m", "Method", rel, <<>>)>>)>>
     ELSE <<UnifiedSymbolInformation(result, "Function", rel, <<>>)>>

\* how a symbol is referred to by the parent attribute of another
SymbolId(kind, relativePath, name) == <<kind, relativePath, name>>

\* for child in symbols: child["parent"] = the symbol named
SetParent(symbols, parent) ==
  [i \in DOMAIN symbols |-> [parent |-> parent] @@ symbols[i]]

\* an item of the directory that the walk keeps
SkipItem_Never(fs, patterns, rel) == FALSE

\* process_directory skips an item that is_ignored_path reports
SkipItem(fs, patterns, rel) == is_ignored_path_in(fs, patterns, rel)

NoItems == [children |-> <<>>, requested |-> <<>>]

\* process_directory: <<the symbols returned, the files for which
\* request_document_symbols was called, in order>>
RECURSIVE process_directory(_, _, _, _, _, _)
RECURSIVE process_items(_, _, _, _, _, _, _, _)

process_items(fs, patterns, reversed, c, answer, rel_dir, names, acc) ==
  IF names = <<>> THEN acc
  ELSE
    LET name == Head(names)
        rel == Append(rel_dir, name)
        next ==
          IF SkipItem(fs, patterns, rel) THEN acc
          ELSE IF isdir(fs, rel)
            THEN LET sub == process_directory(fs, patterns, reversed, c, answer, rel)
                 IN [children |-> acc.children \o
                       SetParent(sub.result,
                                 SymbolId("Package", rel_dir, basename(rel_dir))),
                     requested |-> acc.requested \o sub.requested]
          ELSE [children |-> acc.children \o
                   SetParent(
                     <<UnifiedSymbolInformation(splitext(name), "File", rel,
                         SetParent(file_root_nodes(c, rel, answer),
                                   SymbolId("File", rel, splitext(name))))>>,
                     SymbolId("Package", rel_dir, basename(rel_dir))),
                requested |-> Append(acc.requested, rel)]
    IN process_items(fs, patterns, reversed, c, answer, rel_dir, Tail(names), next)

process_directory(fs, patterns, reversed, c, answer, rel_dir) ==
  IF is_ignored_path_in(fs, patterns, rel_dir)
    THEN [result |-> <<>>, requested |-> <<>>]
  ELSE
    LET items == process_items(fs, patterns, reversed, c, answer, rel_dir,
                               listdir(fs, rel_dir, reversed), NoItems)
    IN [result |-> <<UnifiedSymbolInformation(basename(rel_dir), "Package",
                                              rel_dir, items.children)>>,
        requested |-> items.requested]

\* request_full_symbol_tree before any request is sent: what it returns,
\* and the files it asks request_document_symbols about
full_symbol_tree(fs, patterns, reversed, c, answer, within) ==
  IF within # <<>> /\ ~exists(fs, within)
    THEN [outcome |-> "FileNotFoundError", result |-> <<>>, requested |-> <<>>]
  ELSE IF within # <<>> /\ isfile(fs, within)
    THEN IF is_ignored_path_in(fs, patterns, within)
           THEN [outcome |-> "IgnoredInput", result |-> <<>>, requested |-> <<>>]
           ELSE [outcome |-> "ok", result |-> file_root_nodes(c, within, answer),
                 requested |-> <<within>>]
  ELSE [outcome |-> "ok"] @@ process_directory(fs, patterns, reversed, c, answer, within)

\* the cache after request_document_symbols has run for the files in turn
RECURSIVE CacheAfter(_, _, _)
CacheAfter(c, requested, answer) ==
  IF requested = <<>> THEN c
  ELSE LET rel == Head(requested)
           key == cache_key(rel, FALSE)
           file_data == LSPFileBuffer(rel, read_file(rel), 0, 1)
           c1 == IF CacheHit(c, key, file_data) \/ answer = NoAnswer THEN c
                 ELSE [k \in DOMAIN c \cup {key} |->
                         IF k = key THEN CacheEntry(file_data, answer, read_file(rel))
                         ELSE c[k]]
       IN CacheAfter(c1, Tail(requested), answer)

\* one call of request_full_symbol_tree, with the child's answer to every
\* textDocument/documentSymbol request it sends.  Every file it opens it
\* closes again, so the registry is as before; the mirror srv follows the
\* documents of Files only
RequestFullSymbolTree(within, answer) ==
  LET t == full_symbol_tree(tree_fs, ignored_paths, listdir_reversed, cache,
                            answer, within)
      raises == ~server_started /\ t.requested # <<>>
  IN /\ tree_calls < MaxTreeCalls
     /\ tree_calls' = tree_calls + 1
     /\ tree_call' =
          IF raises
            THEN [within |-> within, outcome |-> "NotStarted", result |-> <<>>,
                  requested |-> <<>>]
            ELSE [within |-> within, outcome |-> t.outcome, result |-> t.result,
                  requested |-> t.requested]
     /\ cache' = IF raises THEN cache ELSE CacheAfter(cache, t.requested, answer)
     /\ cache_has_changed' =
          (cache_has_changed \/ (~raises /\ CacheAfter(cache, t.requested, answer) # cache))
     /\ ret' = Ret("request_full_symbol_tree",
                   IF raises THEN "NotStarted" ELSE t.outcome, server_started,
                   ~raises /\ t.requested # <<>>)
     /\ UNCHANGED <<server_started, open_file_buffers, srv, scopes, pending, hist>>
     /\ UNCHANGED <<syncvars, locvars, sym_file, sym_call, tree_fs, ignored_paths,
                    listdir_reversed, callvars, filevars,
                    shutvars, start_pc, reqvars, extvars>>

TreeInit ==
  /\ BufInit /\ SyncInit /\ LocInit
  /\ is_windows = FALSE
  /\ relpath_outside = "None"
  /\ sym_file = [content |-> <<>>, symbols |-> <<>>]
  /\ sym_call = NoSymCall
  /\ tree_fs \in SUBSET TreeFiles
  /\ ignored_paths \in IgnoredPathsConfigs
  /\ listdir_reversed \in BOOLEAN
  /\ tree_call = NoTreeCall
  /\ tree_calls = 0
  /\ CallVarsInit
  /\ FileVarsInit
  /\ ShutVarsInit
  /\ ReqVarsInit
  /\ ExtVarsInit

TreeNext ==
  \/ StartServer
  \/ \E within \in WithinPaths, answer \in {"symsA", "symsB", NoAnswer} :
        RequestFullSymbolTree(within, answer)

TreeSpec == TreeInit /\ [][TreeNext]_vars

\* ================================================================== claims
FacadeOps == FileOps \cup {"open_file", "insert_text_at_position",
                           "delete_text_between_positions",
                           "request_document_symbols",
                           "request_workspace_symbol"}

\* C1: once every open_file scope on a path has exited, however its body
\* ended, the buffer is absent from open_file_buffers and the child has been
\* told didClose (it holds no open document for the URI)
C1_AllScopesExitedBufferClosed ==
  \A p \in Files :
    ActiveScopes(p) = 0 =>
      /\ as_uri(p) \notin DOMAIN open_file_buffers
      /\ ~srv[as_uri(p)].open

\* C2: every open buffer's content_hash is the MD5 of its current contents
C2_ContentHashIsMD5 ==
  \A u \in DOMAIN open_file_buffers :
    open_file_buffers[u].content_hash = MD5(open_file_buffers[u].contents)

\* C3: a result is served from the symbol cache only if the buffer's contents
\* at the call equal the contents the entry was computed for
C3_CacheServedOnlyIfFresh ==
  ret.outcome = "cached" => ret.fresh

\* C4: after two stop() calls in a row the facade's loop, thread, server
\* context and shutdown flag are what the first call left
C4_SecondStopSameState ==
  (sync_pc = "idle" /\ stop_log.in_row = 2) =>
    FacadeState(loop, loop_thread, server_context, is_shutting_down) = stop_log.first

\* nothing is left to run on the loop thread, and no answer can still arrive
LoopQuiet ==
  \/ thread # "alive"
  \/ co_pc \in {"none", "done"} /\ ~(request = "pending" /\ process = "running")

\* C5: once a stop() called with a request in flight has returned and the loop
\* thread has nothing left to run, the request's future is resolved, the child
\* has exited and is_running() is false
C5_StopResolvesPending ==
  (sync_pc = "idle" /\ stop_log.ran /\ stop_log.had_pending /\ LoopQuiet) =>
    /\ request \in {"cancelled", "error", "result"}
    /\ process = "exited"
    /\ ~IsRunning

\* C6: every facade operation invoked while the server is not started fails
\* with the "Language Server not started" error and sends nothing to the child
C6_NotStartedFailsTyped ==
  (ret.op \in FacadeOps /\ ~ret.started) =>
    (ret.outcome = "NotStarted" /\ ~ret.sent)

\* a relativePath that does not leave the repository
InsideRepo(relative_path) == relative_path # <<>> /\ relative_path[1] # ".."

\* C7: every Location returned by request_definition and request_references
\* carries a relativePath inside the repository
C7_ReturnedLocationsInsideRepo ==
  \A i \in DOMAIN loc_call.result :
    /\ "relativePath" \in DOMAIN loc_call.result[i]
    /\ InsideRepo(loc_call.result[i]["relativePath"])

\* lexicographic order of positions
PositionLeq(a, b) ==
  a.line < b.line \/ (a.line = b.line /\ a.character <= b.character)

\* C8 as stated: a symbol returned for (line, col) with strict=false has
\* range.start <= (line, col) <= range.end in lexicographic order
C8_ReturnedRangeContainsPosition ==
  (sym_call.result # <<>> /\ ~sym_call.strict /\ sym_call.column # <<>>) =>
    LET pos == Position(sym_call.line, sym_call.column[1])
        r == sym_call.result[1].range
    IN PositionLeq(r.start, pos) /\ PositionLeq(pos, r.end)

\* C8: a symbol returned for (line, col) with strict=false starts at or
\* before (line, col) in lexicographic order and ends on line or later
C8_ReturnedRangeCoversLine ==
  (sym_call.result # <<>> /\ ~sym_call.strict /\ sym_call.column # <<>>) =>
    LET pos == Position(sym_call.line, sym_call.column[1])
        r == sym_call.result[1].range
    IN PositionLeq(r.start, pos) /\ sym_call.line <= r.end.line

\* a symbol was returned for a column on its first line
C8_Witness ==
  /\ sym_call.result # <<>>
  /\ ~sym_call.strict
  /\ sym_call.column # <<>>
  /\ sym_call.result[1].range.start.line = sym_call.line
  /\ sym_call.result[1].range.start.character > 0
  /\ sym_call.result[1].range.end.line > sym_call.line

C11_RepeatedCallServedFromCache ==
  (/\ ret.op = "request_document_symbols"
   /\ ret.outcome \in {"pending", "cached"}
   /\ ret.prev.how \in {"fetched", "cached"}
   /\ ret.prev.key = cache_key("a.py", FALSE))
    => (ret.outcome = "cached" /\ ret.result = ret.prev.result)

\* C11 as stated: the same whatever the child answered to the first call,
\* a null answer included
C11_RepeatedCallSendsNothing ==
  (/\ ret.op = "request_document_symbols"
   /\ ret.outcome \in {"pending", "cached"}
   /\ ret.prev.how # "none"
   /\ ret.prev.key = cache_key("a.py", FALSE))
    => (ret.outcome = "cached" /\ ret.result = ret.prev.result)

C11_Witness ==
  /\ ret.op = "request_document_symbols"
  /\ ret.outcome = "cached"
  /\ ret.prev.how = "fetched"
  /\ ret.result = "symsA"
  /\ ret.result = ret.prev.result

\* the relative paths of the File symbols of a forest, one per symbol
RECURSIVE FileSymbolPaths(_)
FileSymbolPaths(symbols) ==
  IF symbols = <<>> THEN <<>>
  ELSE (IF Head(symbols).kind = "File" THEN <<Head(symbols).relativePath>> ELSE <<>>)
       \o FileSymbolPaths(Head(symbols).children)
       \o FileSymbolPaths(Tail(symbols))

Occurrences(s, x) == Cardinality({i \in 1..Len(s) : s[i] = x})

TreeOverDirectory ==
  /\ tree_call.outcome = "ok"
  /\ isdir(tree_fs, tree_call.within)

C13_RootIsPackageSrc ==
  (/\ tree_call.outcome = "ok"
   /\ tree_call.within = <<>>
   /\ tree_fs = {<<"src", "a.go">>, <<"src", "b.go">>, <<"vendor", "c.go">>})
    => /\ Len(tree_call.result) = 1
       /\ tree_call.result[1].kind = "Package"
       /\ tree_call.result[1].name = "src"
       /\ {<<c.kind, c.name>> : c \in {tree_call.result[1].children[i] :
               i \in 1..Len(tree_call.result[1].children)}}
             = {<<"File", "a">>, <<"File", "b">>}

\* C14: the lifecycle of an instance is one-way: a facade that stop() has shut
\* down is never running again and its server_started is never true again.
\* start() acts here on cleared references only, which after the first
\* start() only a completed stop() leaves behind, so starts > 1 says that
\* start() was called after a start() and a completed stop()
C14_NeverStartedAgain ==
  starts > 1 => (~IsRunning /\ ~server_started)

\* C15: no location that request_references returns has a relativePath for
\* which is_ignored_path is true, whatever locations the child reported
C15_NoIgnoredReference ==
  (loc_call.op = "request_references" /\ loc_call.outcome = "ok") =>
    \A i \in 1..Len(loc_call.result) :
      "relativePath" \in DOMAIN loc_call.result[i]
        => ~is_ignored_path(loc_call.result[i]["relativePath"])

\* the child reported a location under an ignored directory and the call
\* returned without it
C15_Witness ==
  /\ loc_call.op = "request_references"
  /\ loc_call.outcome = "ok"
  /\ loc_call.dropped > 0
  /\ <<"file:", "repo", "vendor", "v.go">> \in DOMAIN cache_uri_to_absolute_path

\* C16: when the child answers a references request with the error code
\* -32603, request_references raises a RuntimeError whose cause is that error,
\* and the caller of the sync facade receives the same RuntimeError; an error
\* with any other code reaches both callers as it was raised
C16_InternalErrorWrappedOthersUnchanged ==
  (loc_call.op = "request_references" /\ loc_call.outcome = "raised") =>
    /\ loc_call.sync_raised = loc_call.raised
    /\ IF loc_call.code = InternalError
         THEN /\ loc_call.raised.type = "RuntimeError"
              /\ loc_call.raised.cause = <<Error(InternalError)>>
         ELSE loc_call.raised = Error(loc_call.code)

C16_Witness ==
  /\ loc_call.op = "request_references"
  /\ loc_call.outcome = "raised"
  /\ loc_call.code = InternalError
  /\ loc_call.sync_raised.type = "RuntimeError"

\* C17: every blocking request method applies the configured timeout: when
\* the timeout has elapsed before the coroutine completed, the caller has
\* received a timeout error, and no cancel was sent to the child
C17_TimeoutEndsEveryCall ==
  sync_call.expired =>
    (sync_call.caller = "TimeoutError" /\ ~sync_call.cancel_sent)

\* the file holds every entry of the map
Persisted(c, file) ==
  \A k \in DOMAIN c :
    file.state = "complete" /\ k \in DOMAIN file.map /\ file.map[k] = c[k]

\* C18: when stop() returns after shutting down a running facade, every entry
\* of the in-memory symbol cache is in the cache file, the entries of requests
\* that were in flight when stop() was called included.  Stated for the stops
\* that found a request in flight and whose save_cache had nothing to write
\* or wrote successfully
C18_CachePersistedWhenStopReturns ==
  (/\ at_stop_return.returned
   /\ at_stop_return.in_flight
   /\ at_stop_return.write \in {"ok", "skipped"}) =>
    Persisted(at_stop_return.cache, at_stop_return.cache_file)

\* C19: save_cache is atomic (after it, also after a failed write, the file is
\* the complete file of before or the complete new map), writes only when
\* the dirty flag is set, and clears the flag only after a successful write
C19_SaveCacheAtomic ==
  save_log.called =>
    /\ cache_file \in {save_log.before, CompleteFile(save_log.cache)}
    /\ cache_file.state # "partial"
    /\ ~save_log.dirty => cache_file = save_log.before
    /\ (save_log.dirty /\ save_log.write # "ok") => cache_has_changed

ReaderTasks == {"stdout_reader", "stderr_reader"}

PipeNames == {"stdin", "stdout", "stderr"}

\* LanguageServerHandler.is_running(): a process is attached and has not exited
server_is_running(attached, proc) == attached /\ proc = "running"

\* the variables of the facade that _shutdown leaves alone
sync_rest == <<loop, loop_thread, thread, server_context, is_shutting_down,
               is_windows, sync_pc, co_pc, request, starts, stop_log>>

not_shutdown == <<server_started, bufvars, locvars, sym_file, sym_call,
                  treevars, callvars, filevars, start_pc, reqvars, extvars>>

\* asyncio.wait_for(aw, timeout): a timer ends the wait unless timeout is None
wait_for_expires_Never(t) == FALSE

wait_for_expires(t) == t # "None"

\* how the await of stage 1 can end: the child answers the shutdown request,
\* the request fails, or the 2 s of wait_for elapse
ShutdownRequestOutcomes == {"answered", "error", "timeout"}

\* what follows the await of stage 1, up to process.terminate(): stdin is
\* closed inside the inner try, after the await, so only when the request was
\* answered; the inner except swallows the error or timeout
AfterShutdownRequest_TerminateFirst(how, stdin) ==
  IF how = "answered" /\ stdin = "open"
    THEN <<"terminate", "stdin_close">>
    ELSE <<"terminate">>

AfterShutdownRequest(how, stdin) ==
  IF how = "answered" /\ stdin = "open"
    THEN <<"stdin_close", "terminate">>
    ELSE <<"terminate">>

\* the steps of a sequence, as a set
StepsOf(log) == {log[i] : i \in 1..Len(log)}

\* task.cancel() on each task of ts that is not done
cancel_tasks(st, ts) ==
  [t \in DOMAIN st |-> IF t \in ts /\ st[t] = "running" THEN "cancelling" ELSE st[t]]

AllDone(st, ts) == \A t \in ts : st[t] = "done"

\* stage 4, part 2: close() on each pipe that is not closing
PipesAfterCleanup_StdinOnly(ps) ==
  [n \in DOMAIN ps |-> IF n = "stdin" THEN "closed" ELSE ps[n]]

PipesAfterCleanup(ps) == [n \in DOMAIN ps |-> "closed"]

\* a handler with a child attached: the child runs or has already exited, its
\* reader tasks run (or are done, when the child is gone)
ShutdownInit ==
  /\ BufInit /\ LocInit
  /\ loop = "None" /\ loop_thread = "None" /\ thread = "none"
  /\ server_context = "None" /\ is_shutting_down = FALSE /\ is_windows = FALSE
  /\ sync_pc = "idle" /\ co_pc = "none" /\ request = "none"
  /\ starts = 0 /\ stop_log = NoStops
  /\ relpath_outside = "None"
  /\ sym_file = [content |-> <<>>, symbols |-> <<>>]
  /\ sym_call = NoSymCall
  /\ TreeVarsInit /\ CallVarsInit /\ FileVarsInit /\ ReqVarsInit
  /\ ExtVarsInit
  /\ process \in {"running", "exited"}
  /\ sigterm = FALSE
  /\ server_process = TRUE
  /\ sd_pc = "idle"
  /\ sd_log = <<>>
  /\ sd_wait = "none"
  /\ task_state \in [ReaderTasks -> {"running", "done"}]
  /\ process = "running" => \A t \in ReaderTasks : task_state[t] = "running"
  /\ server_tasks = ReaderTasks
  /\ reader_tasks = {}
  /\ pipes \in [PipeNames -> {"open", "closed"}]
  /\ pipes["stdout"] = "open" /\ pipes["stderr"] = "open"
  /\ start_pc = "ready"

\* _shutdown is called: it returns at once when the handler is not running,
\* else keeps the process and the reader tasks and sends the shutdown request
ShutdownCalled ==
  /\ sd_pc = "idle"
  /\ IF server_is_running(server_process, process)
       THEN /\ sd_pc' = "stage1"
            /\ reader_tasks' = server_tasks
            /\ sd_log' = <<"shutdown_request">>
       ELSE /\ sd_pc' = "skipped"
            /\ UNCHANGED <<reader_tasks, sd_log>>
  /\ UNCHANGED <<sd_wait, task_state, server_tasks, pipes>>
  /\ UNCHANGED <<process, sigterm, server_process, sync_rest, not_shutdown>>

\* the child exits by itself on the shutdown request and exit notification
ChildExitsOnRequest ==
  /\ sd_pc = "stage1"
  /\ process = "running"
  /\ process' = "exited"
  /\ UNCHANGED <<sigterm, server_process, sync_rest, not_shutdown, shutvars>>

\* the child exits on the terminate signal (it may also ignore it)
ChildExitsOnTerminate ==
  /\ sd_pc \in {"wait", "timed_out"}
  /\ process = "running"
  /\ sigterm
  /\ process' = "exited"
  /\ UNCHANGED <<sigterm, server_process, sync_rest, not_shutdown, shutvars>>

\* a reader task reaches EOF once the child is gone
ReaderReachesEOF(t) ==
  /\ sd_pc # "idle"
  /\ process = "exited"
  /\ task_state[t] = "running"
  /\ task_state' = [task_state EXCEPT ![t] = "done"]
  /\ UNCHANGED <<sd_pc, sd_log, sd_wait, server_tasks, reader_tasks, pipes>>
  /\ UNCHANGED <<process, sigterm, server_process, sync_rest, not_shutdown>>

\* a cancelled reader task finishes
TaskFinishes(t) ==
  /\ task_state[t] = "cancelling"
  /\ task_state' = [task_state EXCEPT ![t] = "done"]
  /\ UNCHANGED <<sd_pc, sd_log, sd_wait, server_tasks, reader_tasks, pipes>>
  /\ UNCHANGED <<process, sigterm, server_process, sync_rest, not_shutdown>>

\* the await of stage 1 ends; stdin is closed when the request was answered;
\* process.terminate() (which raises when the child is already gone: the
\* generic except of the outer try, then the finally block); the stage-2 wait
\* begins
Stage1Ends(how, raises) ==
  /\ sd_pc = "stage1"
  /\ how = "timeout" => wait_for_expires("2.0")
  /\ raises => process = "exited"
  /\ LET steps == AfterShutdownRequest(how, pipes["stdin"])
     IN /\ pipes' = IF "stdin_close" \in StepsOf(steps)
                      THEN [pipes EXCEPT !["stdin"] = "closed"]
                      ELSE pipes
        /\ IF raises
             THEN /\ sd_log' = sd_log \o steps
                  /\ sd_pc' = "cleanup"
                  /\ UNCHANGED sigterm
             ELSE /\ sd_log' = sd_log \o steps \o <<"wait">>
                  /\ sd_pc' = "wait"
                  /\ sigterm' = (process = "running")
  /\ UNCHANGED <<sd_wait, task_state, server_tasks, reader_tasks>>
  /\ UNCHANGED <<process, server_process, sync_rest, not_shutdown>>

\* the stage-2 wait returns: the child has exited and every reader task is done
WaitReturns ==
  /\ sd_pc = "wait"
  /\ process = "exited"
  /\ AllDone(task_state, reader_tasks)
  /\ sd_wait' = "exited"
  /\ sd_pc' = "cleanup"
  /\ UNCHANGED <<sd_log, task_state, server_tasks, reader_tasks, pipes>>
  /\ UNCHANGED <<process, sigterm, server_process, sync_rest, not_shutdown>>

\* the stage-2 wait times out: wait_for cancels the gather, which cancels the
\* reader tasks that are not done
WaitTimesOut ==
  /\ sd_pc = "wait"
  /\ wait_for_expires("timeout - 2.0")
  /\ sd_wait' = "timeout"
  /\ task_state' = cancel_tasks(task_state, reader_tasks)
  /\ sd_pc' = "timed_out"
  /\ UNCHANGED <<sd_log, server_tasks, reader_tasks, pipes>>
  /\ UNCHANGED <<process, sigterm, server_process, sync_rest, not_shutdown>>

\* stage 3, once wait_for has raised TimeoutError: process.kill() when the
\* handler is still running
Stage3 ==
  /\ sd_pc = "timed_out"
  /\ AllDone(task_state, reader_tasks)
  /\ IF server_is_running(server_process, process)
       THEN /\ sd_log' = Append(sd_log, "kill")
            /\ sd_pc' = "reap"
       ELSE /\ sd_pc' = "cleanup"
            /\ UNCHANGED sd_log
  /\ UNCHANGED <<sd_wait, task_state, server_tasks, reader_tasks, pipes>>
  /\ UNCHANGED <<process, sigterm, server_process, sync_rest, not_shutdown>>

\* the killed child is reaped: await process.wait() returns
Reaped ==
  /\ sd_pc = "reap"
  /\ process' = "exited"
  /\ sd_pc' = "cleanup"
  /\ UNCHANGED <<sd_log, sd_wait, task_state, server_tasks, reader_tasks, pipes>>
  /\ UNCHANGED <<sigterm, server_process, sync_rest, not_shutdown>>

\* stage 4 begins: the reader tasks that are not done are cancelled
CleanupCancel ==
  /\ sd_pc = "cleanup"
  /\ sd_log' = Append(sd_log, "cleanup")
  /\ task_state' = cancel_tasks(task_state, reader_tasks)
  /\ sd_pc' = "gather"
  /\ UNCHANGED <<sd_wait, server_tasks, reader_tasks, pipes>>
  /\ UNCHANGED <<process, sigterm, server_process, sync_rest, not_shutdown>>

\* stage 4 ends: the gather of the reader tasks returns, server.tasks is
\* emptied, the pipes are closed, server.process is None
CleanupFinish ==
  /\ sd_pc = "gather"
  /\ AllDone(task_state, reader_tasks)
  /\ server_tasks' = {}
  /\ pipes' = PipesAfterCleanup(pipes)
  /\ server_process' = FALSE
  /\ sd_pc' = "returned"
  /\ UNCHANGED <<sd_log, sd_wait, task_state, reader_tasks>>
  /\ UNCHANGED <<process, sigterm, sync_rest, not_shutdown>>

\* the steps of the _shutdown coroutine itself
ShutdownSteps ==
  \/ ShutdownCalled
  \/ \E raises \in BOOLEAN : Stage1Ends("timeout", raises)
  \/ WaitReturns
  \/ WaitTimesOut
  \/ Stage3
  \/ Reaped
  \/ CleanupCancel
  \/ CleanupFinish

\* what the child and the reader tasks do
ShutdownEnvironment ==
  \/ \E how \in ShutdownRequestOutcomes \ {"timeout"}, raises \in BOOLEAN :
       Stage1Ends(how, raises)
  \/ ChildExitsOnRequest
  \/ ChildExitsOnTerminate
  \/ \E t \in ReaderTasks : ReaderReachesEOF(t)

ShutdownNext ==
  \/ ShutdownSteps
  \/ ShutdownEnvironment
  \/ \E t \in ReaderTasks : TaskFinishes(t)

ShutdownSpec == ShutdownInit /\ [][ShutdownNext]_vars

\* the event loop runs the coroutine, the wait_for timers fire, a killed child
\* is reaped and a cancelled task finishes
ShutdownFairSpec ==
  /\ ShutdownInit
  /\ [][ShutdownNext]_vars
  /\ WF_vars(ShutdownSteps)
  /\ \A t \in ReaderTasks : WF_vars(TaskFinishes(t))

\* the place of each step in the staged shutdown
StepRank(s) ==
  CASE s = "shutdown_request" -> 1
    [] s = "stdin_close" -> 2
    [] s = "terminate" -> 3
    [] s = "wait" -> 4
    [] s = "kill" -> 5
    [] s = "cleanup" -> 6

\* C22: the steps of _shutdown occur only in the order shutdown request,
\* stdin close, terminate, wait, kill, cleanup, each at most once; an error or
\* timeout of the shutdown request does not abort the sequence (terminate is
\* still issued); kill is issued only after terminate and only when the
\* stage-2 wait timed out; the cleanup is the last step of a call that returns
C22_StagesInOrder ==
  /\ \A i, j \in 1..Len(sd_log) : i < j => StepRank(sd_log[i]) < StepRank(sd_log[j])
  /\ sd_pc \notin {"idle", "skipped", "stage1"} => "terminate" \in StepsOf(sd_log)
  /\ "kill" \in StepsOf(sd_log) =>
       /\ "terminate" \in StepsOf(sd_log)
       /\ "wait" \in StepsOf(sd_log)
       /\ sd_wait = "timeout"
  /\ sd_pc = "returned" => sd_log[Len(sd_log)] = "cleanup"

C22_Witness ==
  /\ sd_pc = "returned"
  /\ sd_log = <<"shutdown_request", "stdin_close", "terminate", "wait", "kill",
                "cleanup">>

C24_ShutdownTerminates == (sd_pc = "stage1") ~> (sd_pc = "returned")

C24_Witness ==
  /\ sd_pc = "returned"
  /\ sd_wait = "timeout"
  /\ sigterm
  /\ "kill" \in StepsOf(sd_log)
  /\ "stdin_close" \notin StepsOf(sd_log)

\* ------------------------------------------------- Gopls.start_server
\* the capabilities Gopls.start_server asserts in the initialize response
asserted_capabilities == {"textDocumentSync", "completionProvider", "definitionProvider"}

InitializeResponses == {asserted_capabilities, {"textDocumentSync"}}

not_start == <<bufvars, locvars, sym_file, sym_call, treevars, callvars,
               filevars, shutvars, reqvars, extvars>>

\* the handlers are registered, the context of LanguageServer.start_server is
\* entered (server_started = True) and self.server.start() is awaited
GoplsStartEnter ==
  /\ start_pc = "none"
  /\ server_started' = TRUE
  /\ start_pc' = "starting"
  /\ UNCHANGED <<process, sigterm, server_process, sync_rest, not_start>>

\* self.server.start() returns: the child runs; the initialize request is sent
\* and its response awaited
GoplsProcessStarted ==
  /\ start_pc = "starting"
  /\ process' = "running"
  /\ server_process' = TRUE
  /\ start_pc' = "initializing"
  /\ UNCHANGED <<server_started, sigterm, sync_rest, not_start>>

\* the child answers initialize: the capabilities are asserted, initialized is
\* sent and the context yields; a failed assertion leaves the context of
\* LanguageServer.start_server (server_started = False, then _shutdown)
GoplsInitializeAnswered(capabilities) ==
  /\ start_pc = "initializing"
  /\ IF asserted_capabilities \subseteq capabilities
       THEN /\ start_pc' = "ready"
            /\ UNCHANGED <<server_started, process, server_process>>
       ELSE /\ start_pc' = "failed"
            /\ server_started' = FALSE
            /\ process' = "exited"
            /\ server_process' = FALSE
  /\ UNCHANGED <<sigterm, sync_rest, not_start>>

\* start_server in progress, with facade operations called meanwhile
StartNext ==
  \/ GoplsStartEnter
  \/ GoplsProcessStarted
  \/ \E capabilities \in InitializeResponses : GoplsInitializeAnswered(capabilities)
  \/ \E p \in Files : OpenFile(p) \/ CloseFile(p)
  \/ \E op \in FileOps, p \in Files : RequestOnFile(op, p)
  \/ \E i \in 1..(MaxPending + 1) : RequestResponse(i)

StartSpec == Init /\ [][StartNext]_vars

\* the child has a document open or a request of the facade pending
ChildHoldsDocumentMessage ==
  \/ \E u \in URIs : srv[u].open
  \/ pending # <<>>

\* C25: while start_server is in progress (the child runs, the initialize
\* request is not answered, initialized is not sent), the child has been sent
\* no document notification (it holds no open document) and no document
\* request (none is pending)
C25_NothingSentBeforeInitialized ==
  start_pc = "initializing" => ~ChildHoldsDocumentMessage

\* the range starts and ends on the same line
OneLiner(s) == s.range["start"]["line"] = s.range["end"]["line"]

NestRanges ==
  {Range(s, Position(l, MaxCol)) : s \in SymPositions, l \in 0..MaxLine} \cap
  {r \in [start : SymPositions, end : SymPositions] : r.start.line <= r.end.line}

NestUniverse == [kind : {"Class", "Variable"}, range : NestRanges]

NestLists == UNION {[1..k -> NestUniverse] : k \in 0..(MaxSymbols + 1)}

ContainerInit ==
  /\ BufInit /\ SyncInit /\ LocInit
  /\ is_windows = FALSE
  /\ relpath_outside = "None"
  /\ sym_file \in [content : {SymContent}, symbols : NestLists]
  /\ sym_call = NoSymCall
  /\ TreeVarsInit
  /\ CallVarsInit
  /\ FileVarsInit
  /\ ShutVarsInit
  /\ ReqVarsInit
  /\ ExtVarsInit

\* the calls made on a started server, for a line that has text and a column
ContainerNext ==
  \/ StartServer
  \/ \E line \in 0..MaxLine, c \in 0..MaxCol, strict \in BOOLEAN :
       /\ server_started
       /\ RequestContainingSymbol(line, <<c>>, strict)

ContainerSpec == ContainerInit /\ [][ContainerNext]_vars

\* the symbols request_containing_symbol considers
IsCandidate(s) ==
  \/ s.kind \in container_symbol_kinds /\ ~OneLiner(s)
  \/ s.kind = "Variable"

CandidatesOf(symbols) == {symbols[i] : i \in {j \in 1..Len(symbols) : IsCandidate(symbols[j])}}

load_cache_ClearsOnError(c, file) ==
  [cache |-> IF file.state = "complete" THEN file.map ELSE <<>>,
   outcome |-> CASE file.state = "absent" -> "skipped"
                 [] file.state = "complete" -> "loaded"
                 [] OTHER -> "error_logged"]

load_cache(c, file) ==
  [cache |-> IF file.state = "complete" THEN file.map ELSE c,
   outcome |-> CASE file.state = "absent" -> "skipped"
                 [] file.state = "complete" -> "loaded"
                 [] OTHER -> "error_logged"]

\* load_cache called on the language server (SyncLanguageServer.load_cache
\* forwards to it)
LoadCache ==
  LET l == load_cache(cache, cache_file) IN
  /\ cache' = l.cache
  /\ ret' = Ret("load_cache", l.outcome, server_started, FALSE)
  /\ UNCHANGED <<server_started, open_file_buffers, srv, scopes, pending,
                 cache_has_changed, hist>>
  /\ UNCHANGED <<syncvars, locvars, symvars>>

\* LanguageServer.__init__ in a new process on the same repository: an empty
\* cache, the flag cleared, then load_cache
Construct ==
  LET l == load_cache(<<>>, cache_file) IN
  /\ ~server_started
  /\ open_file_buffers = <<>>
  /\ pending = <<>>
  /\ \A p \in Files : scopes[p] = 0
  /\ cache' = l.cache
  /\ cache_has_changed' = FALSE
  /\ hist' = [p \in Files |-> NoHist]
  /\ ret' = RetOf("__init__", l.outcome, FALSE, FALSE, NoDoc)
  /\ UNCHANGED <<server_started, open_file_buffers, srv, scopes, pending>>
  /\ UNCHANGED <<syncvars, locvars, symvars>>

LoadNext ==
  \/ StartServer
  \/ ExitServer
  \/ \E p \in Files : OpenFile(p) \/ CloseFile(p)
  \/ \E p \in Files : DocSymbolsCall(p, FALSE)
  \/ \E i \in 1..(MaxPending + 1), a \in SymbolAnswers \cup {NoAnswer} :
        DocSymbolsResponse(i, a)
  \/ \E write \in WriteOutcomes : SaveCache(write)
  \/ LoadCache
  \/ Construct

LoadSpec == Init /\ [][LoadNext]_vars

\* C30 as stated: after load_cache has failed to deserialize the file, at
\* construction or later, no error is raised, one is logged and the in-memory
\* symbol cache is empty
C30_CacheEmptyAfterFailedLoad ==
  (ret.op \in {"load_cache", "__init__"} /\ cache_file.state = "partial") =>
    /\ ret.outcome = "error_logged"
    /\ cache = <<>>

\* C30, amended: load_cache on a file that fails to deserialize raises no
\* error, logs one and leaves the in-memory symbol cache as it was before the
\* call, which is empty at construction
C30_CacheKeptAfterFailedLoad ==
  [][(cache_file.state = "partial" /\ ret'.op \in {"load_cache", "__init__"}) =>
       /\ ret'.outcome = "error_logged"
       /\ ret'.op = "load_cache" => cache' = cache
       /\ ret'.op = "__init__" => cache' = <<>>]_vars

C30_Witness ==
  /\ ret.op = "load_cache"
  /\ ret.outcome = "error_logged"
  /\ cache_file.state = "partial"
  /\ cache # <<>>

\* ---------------------------------------------- request_referencing_symbols
\* the symbol at the queried position (relative_file_path, line, column)
InputSymbol ==
  [name |-> "f", kind |-> "Function", relativePath |-> "a.py",
   selectionRange |-> Position(0, 4)]

\* a reference request_references returned, with the symbol that
\* request_containing_symbol (and the Variable fallback) finds for it: <<>> for
\* None
Reference(path, line, character, container) ==
  [relativePath |-> path, line |-> line, character |-> character,
   container |-> container]

\* the references a child may list: the definition of f itself, an import of
\* f in b.py, a use inside g, a use inside a class named f, a use outside
\* every symbol
ReferenceUniverse ==
  {Reference("a.py", 0, 4, <<InputSymbol>>),
   Reference("b.py", 0, 7, <<[name |-> "f", kind |-> "Function", relativePath |-> "b.py",
                              selectionRange |-> Position(0, 7)]>>),
   Reference("b.py", 2, 4, <<[name |-> "g", kind |-> "Function", relativePath |-> "b.py",
                              selectionRange |-> Position(1, 4)]>>),
   Reference("b.py", 4, 4, <<[name |-> "f", kind |-> "Class", relativePath |-> "b.py",
                              selectionRange |-> Position(3, 6)]>>),
   Reference("b.py", 6, 0, <<>>)}

ReferenceLists == UNION {[1..k -> ReferenceUniverse] : k \in 0..MaxRefs}

\* the File symbol synthesized for a reference outside every symbol
FileSymbol(ref) ==
  [name |-> IF ref.relativePath = "a.py" THEN "a" ELSE "b", kind |-> "File",
   relativePath |-> ref.relativePath, selectionRange |-> Position(0, 0)]

ReferenceInSymbol(symbol, line, character) ==
  [symbol |-> symbol, line |-> line, character |-> character]

\* one pass of the loop over the references: acc holds incoming_symbol (<<>>
\* for None) and result
ReferenceStep(acc, ref, relative_file_path, include_imports, include_self, include_file_symbols) ==
  LET containing ==
        IF ref.container = <<>> /\ include_file_symbols
          THEN <<FileSymbol(ref)>>
          ELSE ref.container
  IN IF \/ containing = <<>>
        \/ ~include_file_symbols /\ containing[1].kind = "File"
       THEN acc
     ELSE IF /\ containing[1].relativePath = relative_file_path
             /\ containing[1].selectionRange.line = ref.line
             /\ containing[1].selectionRange.character = ref.character
       THEN [incoming |-> containing,
             result |-> IF include_self
                          THEN Append(acc.result,
                                      ReferenceInSymbol(containing[1], ref.line,
                                                        ref.character))
                          ELSE acc.result]
     ELSE IF /\ ~include_imports
             /\ acc.incoming # <<>>
             /\ containing[1].name = acc.incoming[1].name
             /\ containing[1].kind = acc.incoming[1].kind
       THEN acc
     ELSE [acc EXCEPT !.result =
             Append(@, ReferenceInSymbol(containing[1], ref.line, ref.character))]

RECURSIVE referencing_symbols(_, _, _, _, _, _)
referencing_symbols(references, acc, relative_file_path, include_imports, include_self, include_file_symbols) ==
  IF references = <<>> THEN acc.result
  ELSE referencing_symbols(Tail(references),
                           ReferenceStep(acc, Head(references), relative_file_path,
                                         include_imports, include_self,
                                         include_file_symbols),
                           relative_file_path, include_imports, include_self,
                           include_file_symbols)

\* request_referencing_symbols at the position of InputSymbol
RequestReferencingSymbols(include_imports, include_self, include_file_symbols) ==
  /\ refs_call.outcome = "none"
  /\ refs_call' =
       [references |-> refs_call.references,
        include_imports |-> include_imports,
        include_self |-> include_self,
        include_file_symbols |-> include_file_symbols,
        outcome |-> IF server_started THEN "ok" ELSE "NotStarted",
        result |-> IF server_started
                     THEN referencing_symbols(refs_call.references,
                                              [incoming |-> <<>>, result |-> <<>>],
                                              InputSymbol.relativePath, include_imports,
                                              include_self, include_file_symbols)
                     ELSE <<>>]
  /\ ret' = Ret("request_referencing_symbols",
                IF server_started THEN "ok" ELSE "NotStarted", server_started, FALSE)
  /\ UNCHANGED <<server_started, open_file_buffers, srv, scopes, pending, cache,
                 cache_has_changed, hist>>
  /\ UNCHANGED <<syncvars, locvars, sym_file, sym_call, treevars, callvars, filevars,
                 shutvars, start_pc, completion, extvars>>

ReferrersInit ==
  /\ BufInit /\ SyncInit /\ LocInit
  /\ is_windows = FALSE
  /\ relpath_outside = "None"
  /\ sym_file = [content |-> <<>>, symbols |-> <<>>]
  /\ sym_call = NoSymCall
  /\ TreeVarsInit /\ CallVarsInit /\ FileVarsInit /\ ShutVarsInit
  /\ completion = NoCompletion
  /\ ExtVarsInit
  /\ refs_call \in {[NoRefsCall EXCEPT !.references = l] : l \in ReferenceLists}

ReferrersNext ==
  \/ StartServer
  \/ \E include_imports \in BOOLEAN, include_self \in BOOLEAN,
        include_file_symbols \in BOOLEAN :
       RequestReferencingSymbols(include_imports, include_self, include_file_symbols)

ReferrersSpec == ReferrersInit /\ [][ReferrersNext]_vars

\* the containing symbol of the reference has the name and the kind of the
\* input symbol, and the reference is not the input symbol's own
ImportLike(ref) ==
  /\ ref.container # <<>>
  /\ ref.container[1].name = InputSymbol.name
  /\ ref.container[1].kind = InputSymbol.kind
  /\ ~(/\ ref.relativePath = InputSymbol.relativePath
       /\ ref.line = InputSymbol.selectionRange.line
       /\ ref.character = InputSymbol.selectionRange.character)

InResult(ref, result) ==
  \E j \in 1..Len(result) :
    result[j] = ReferenceInSymbol(ref.container[1], ref.line, ref.character)

\* C28: in the result of request_referencing_symbols, a reference whose
\* containing symbol has the name and kind of the input symbol is absent when
\* include_imports is false and present when it is true, whatever the order of
\* the references and whether or not the self-reference is among them
C28_ImportsFilteredByFlag ==
  refs_call.outcome = "ok" =>
    \A i \in 1..Len(refs_call.references) :
      ImportLike(refs_call.references[i]) =>
        (InResult(refs_call.references[i], refs_call.result)
           <=> refs_call.include_imports)

\* ------------------------------------------------------ request_completions
\* the bound in the loop condition of request_completions
retry_limit == 30

\* what the child answers to textDocument/completion: null, a CompletionList
\* with isIncomplete true or false, or a plain list of items
CompletionAnswers == {"None", "incomplete", "complete", "list"}

\* a plain list is wrapped as {"items": response, "isIncomplete": False}
completion_response(answer) == IF answer = "list" THEN "complete" ELSE answer

\* the loop condition
poll_again(response, num_retries) ==
  response = "None" \/ (response = "incomplete" /\ num_retries < retry_limit)

\* request_completions is called: open_file is entered and, the response being
\* None, the first request is sent (completions_available is set by
\* start_server)
RequestCompletions(p, allow_incomplete) ==
  /\ completion.pc = "idle"
  /\ CanEnter(p)
  /\ IF ~server_started
       THEN /\ ret' = Ret("request_completions", "NotStarted", FALSE, FALSE)
            /\ UNCHANGED <<open_file_buffers, srv, completion>>
       ELSE /\ open_file_buffers' = OpenFileEnterBufs(open_file_buffers, p)
            /\ srv' = OpenFileEnterSrv(srv, open_file_buffers, p)
            /\ completion' = [NoCompletion EXCEPT !.pc = "waiting", !.path = p,
                                                  !.allow_incomplete = allow_incomplete,
                                                  !.sent = 1]
            /\ ret' = Ret("request_completions", "pending", TRUE, TRUE)
  /\ UNCHANGED <<server_started, scopes, pending, cache, cache_has_changed, hist>>
  /\ UNCHANGED <<syncvars, locvars, sym_file, sym_call, treevars, callvars, filevars,
                 shutvars, start_pc, refs_call, extvars>>

\* the child answers: num_retries is incremented, then either the next
\* request is sent or the loop ends, the result is built and open_file is left
CompletionAnswered(answer) ==
  /\ completion.pc = "waiting"
  /\ LET response == completion_response(answer)
         num_retries == completion.num_retries + 1
     IN IF poll_again(response, num_retries)
          THEN /\ completion.sent < MaxCompletionRequests
               /\ completion' = [completion EXCEPT !.response = response,
                                                   !.num_retries = num_retries,
                                                   !.sent = @ + 1]
               /\ UNCHANGED <<open_file_buffers, srv, ret>>
          ELSE /\ completion' =
                    [completion EXCEPT !.pc = "returned",
                                       !.response = response,
                                       !.num_retries = num_retries,
                                       !.result = IF response = "incomplete"
                                                     /\ ~completion.allow_incomplete
                                                    THEN "empty" ELSE "items"]
               /\ open_file_buffers' = OpenFileExitBufs(open_file_buffers, completion.path)
               /\ srv' = OpenFileExitSrv(srv, open_file_buffers, completion.path)
               /\ ret' = Ret("request_completions", "ok", server_started, FALSE)
  /\ UNCHANGED <<server_started, scopes, pending, cache, cache_has_changed, hist>>
  /\ UNCHANGED <<syncvars, locvars, sym_file, sym_call, treevars, callvars, filevars,
                 shutvars, start_pc, refs_call, extvars>>

CompletionNext ==
  \/ StartServer
  \/ \E p \in Files, allow_incomplete \in BOOLEAN : RequestCompletions(p, allow_incomplete)
  \/ \E answer \in CompletionAnswers : CompletionAnswered(answer)

CompletionSpec == Init /\ [][CompletionNext]_vars

\* C29: a request_completions call sends at most 30 textDocument/completion
\* requests, whatever the child answers to each of them
C29_AtMostThirtyRequests == completion.sent <= retry_limit

\* ------------------------------------------------- the cache lock, two threads
\* request_document_symbols runs as a coroutine on the loop thread, save_cache
\* and load_cache on the caller's thread; _cache_lock is a threading.Lock, so
\* acquiring it waits until it is free.

LoopIdle == [at |-> "idle", path |-> "", include_body |-> FALSE]

\* the lock on leaving the first "with self._cache_lock:" block of
\* request_document_symbols, before the request is awaited
LockAfterRead_Held(holder) == holder

LockAfterRead(holder) == "free"

lock_frame == <<syncvars, locvars, sym_file, sym_call, treevars, callvars,
                at_stop_return, shutvars, start_pc, reqvars, race, alive_threads, diagvars, scope, logvars>>

\* request_document_symbols up to the lock: the file is opened
DocSymbolsOpen(p, include_body) ==
  /\ loop_pc.at = "idle"
  /\ server_started
  /\ CanEnter(p)
  /\ open_file_buffers' = OpenFileEnterBufs(open_file_buffers, p)
  /\ srv' = OpenFileEnterSrv(srv, open_file_buffers, p)
  /\ loop_pc' = [at |-> "want_read", path |-> p, include_body |-> include_body]
  /\ UNCHANGED <<server_started, scopes, pending, cache, cache_has_changed, hist, ret>>
  /\ UNCHANGED <<cache_lock, caller_pc, unlocked_access, cache_file, save_log>>
  /\ UNCHANGED lock_frame

\* with self._cache_lock: entered by the coroutine, for the read or the store
DocSymbolsAcquire ==
  /\ loop_pc.at \in {"want_read", "want_store"}
  /\ cache_lock = "free"
  /\ cache_lock' = "loop"
  /\ loop_pc' = [loop_pc EXCEPT !.at = IF loop_pc.at = "want_read" THEN "read" ELSE "store"]
  /\ UNCHANGED <<server_started, bufvars, caller_pc, unlocked_access, cache_file, save_log>>
  /\ UNCHANGED lock_frame

\* the cache lookup: a hit returns from inside the block, a miss leaves the
\* block and sends the request
DocSymbolsRead ==
  LET p == loop_pc.path
      u == as_uri(p)
      key == cache_key(p, loop_pc.include_body)
      file_data == open_file_buffers[u]
  IN
  /\ loop_pc.at = "read"
  /\ unlocked_access' = (unlocked_access \/ cache_lock # "loop")
  /\ IF CacheHit(cache, key, file_data)
       THEN /\ cache_lock' = "free"
            /\ open_file_buffers' = OpenFileExitBufs(open_file_buffers, p)
            /\ srv' = OpenFileExitSrv(srv, open_file_buffers, p)
            /\ loop_pc' = LoopIdle
            /\ ret' = [Ret("request_document_symbols", "cached", TRUE, FALSE)
                         EXCEPT !.result = cache[key].result]
            /\ UNCHANGED pending
       ELSE /\ cache_lock' = LockAfterRead(cache_lock)
            /\ loop_pc' = [loop_pc EXCEPT !.at = "await"]
            /\ pending' = pending @@
                 (FreeId :> Req("request_document_symbols", p, loop_pc.include_body))
            /\ UNCHANGED <<open_file_buffers, srv, ret>>
  /\ UNCHANGED <<server_started, scopes, cache, cache_has_changed, hist>>
  /\ UNCHANGED <<caller_pc, cache_file, save_log>>
  /\ UNCHANGED lock_frame

\* the awaited response arrives: the file is closed; null returns at once
DocSymbolsAnswered(i, answer) ==
  /\ loop_pc.at = "await"
  /\ i \in DOMAIN pending
  /\ pending[i].op = "request_document_symbols"
  /\ LET p == loop_pc.path IN
       /\ open_file_buffers' = OpenFileExitBufs(open_file_buffers, p)
       /\ srv' = OpenFileExitSrv(srv, open_file_buffers, p)
  /\ pending' = Remove(pending, i)
  /\ IF answer = NoAnswer
       THEN /\ loop_pc' = LoopIdle
            /\ ret' = [Ret("request_document_symbols", "empty", TRUE, FALSE)
                         EXCEPT !.result = "empty"]
       ELSE /\ loop_pc' = [at |-> "want_store", path |-> loop_pc.path,
                           include_body |-> loop_pc.include_body, answer |-> answer,
                           file_data |-> open_file_buffers[as_uri(loop_pc.path)]]
            /\ UNCHANGED ret
  /\ UNCHANGED <<server_started, scopes, cache, cache_has_changed, hist>>
  /\ UNCHANGED <<cache_lock, caller_pc, unlocked_access, cache_file, save_log>>
  /\ UNCHANGED lock_frame

\* the second block: the entry is stored and the dirty flag set
DocSymbolsStore ==
  LET key == cache_key(loop_pc.path, loop_pc.include_body) IN
  /\ loop_pc.at = "store"
  /\ unlocked_access' = (unlocked_access \/ cache_lock # "loop")
  /\ cache' = [k \in DOMAIN cache \cup {key} |->
                 IF k = key
                   THEN CacheEntry(loop_pc.file_data, loop_pc.answer,
                                   loop_pc.file_data.contents)
                   ELSE cache[k]]
  /\ cache_has_changed' = TRUE
  /\ cache_lock' = "free"
  /\ loop_pc' = LoopIdle
  /\ ret' = [Ret("request_document_symbols", "fetched", TRUE, FALSE)
               EXCEPT !.result = loop_pc.answer]
  /\ UNCHANGED <<server_started, open_file_buffers, srv, scopes, pending, hist>>
  /\ UNCHANGED <<caller_pc, cache_file, save_log>>
  /\ UNCHANGED lock_frame

\* save_cache or load_cache on the caller's thread takes the lock; load_cache
\* returns before the lock when no file exists
CallerAcquire(op) ==
  /\ caller_pc = "idle"
  /\ op = "load" => cache_file.state # "absent"
  /\ cache_lock = "free"
  /\ cache_lock' = "caller"
  /\ caller_pc' = op
  /\ UNCHANGED <<server_started, bufvars, loop_pc, unlocked_access, cache_file, save_log>>
  /\ UNCHANGED lock_frame

\* the body of save_cache, then the lock is released
CallerSave(write) ==
  LET s == save_cache(cache, cache_has_changed, cache_file, write) IN
  /\ caller_pc = "save"
  /\ unlocked_access' = (unlocked_access \/ cache_lock # "caller")
  /\ cache_file' = s.cache_file
  /\ cache_has_changed' = s.cache_has_changed
  /\ save_log' = s.save_log
  /\ cache_lock' = "free"
  /\ caller_pc' = "idle"
  /\ ret' = Ret("save_cache", "ok", server_started, FALSE)
  /\ UNCHANGED <<server_started, open_file_buffers, srv, scopes, pending, cache, hist>>
  /\ UNCHANGED loop_pc
  /\ UNCHANGED lock_frame

\* the body of load_cache, then the lock is released
CallerLoad ==
  LET l == load_cache(cache, cache_file) IN
  /\ caller_pc = "load"
  /\ unlocked_access' = (unlocked_access \/ cache_lock # "caller")
  /\ cache' = l.cache
  /\ cache_lock' = "free"
  /\ caller_pc' = "idle"
  /\ ret' = Ret("load_cache", l.outcome, server_started, FALSE)
  /\ UNCHANGED <<server_started, open_file_buffers, srv, scopes, pending,
                 cache_has_changed, hist>>
  /\ UNCHANGED <<loop_pc, cache_file, save_log>>
  /\ UNCHANGED lock_frame

LockNext ==
  \/ StartServer
  \/ \E p \in Files : DocSymbolsOpen(p, FALSE)
  \/ DocSymbolsAcquire
  \/ DocSymbolsRead
  \/ \E i \in 1..(MaxPending + 1), a \in SymbolAnswers \cup {NoAnswer} :
        DocSymbolsAnswered(i, a)
  \/ DocSymbolsStore
  \/ \E op \in {"save", "load"} : CallerAcquire(op)
  \/ \E write \in WriteOutcomes : CallerSave(write)
  \/ CallerLoad

LockSpec == Init /\ [][LockNext]_vars

\* C31: every access to the symbol cache and the dirty flag made by
\* request_document_symbols, save_cache and load_cache is made by the thread
\* holding the cache lock, and the coroutine does not hold the lock while it
\* awaits the server's response.
C31_CacheAccessUnderLock ==
  /\ ~unlocked_access
  /\ loop_pc.at \in {"read", "store"} => cache_lock = "loop"
  /\ caller_pc \in {"save", "load"} => cache_lock = "caller"
  /\ loop_pc.at = "await" => cache_lock # "loop"

\* save_cache holds the lock while the coroutine, back from its request,
\* waits to store the entry
C31_Witness ==
  /\ caller_pc = "save"
  /\ cache_lock = "caller"
  /\ loop_pc.at = "want_store"

\* ------------------------------------------- open_file entered from two threads
\* SyncLanguageServer.open_file runs LanguageServer.open_file on the caller's
\* thread; the coroutines of the request methods run it on the loop thread.
\* No lock guards open_file_buffers, so the threads interleave between the
\* reads and writes of the statements below.
Threads == {"caller", "loop"}

\* the other thread holds a buffer object that is replaced or deleted
Orphaned(r, t) ==
  [x \in Threads |->
     IF x # t /\ r[x].at \in {"inc_write", "dec_write"}
       THEN [r[x] EXCEPT !.stale = TRUE] ELSE r[x]]

race_frame == <<server_started, pending, cache, cache_has_changed, hist,
                syncvars, locvars, sym_file, sym_call, treevars, callvars, filevars,
                shutvars, start_pc, reqvars, lockvars, alive_threads, diagvars, scope, logvars>>

\* if uri in self.open_file_buffers
OpenFileCheck(t, p) ==
  LET u == as_uri(p) IN
  /\ race[t].at = "idle"
  /\ server_started
  /\ u \in DOMAIN open_file_buffers => open_file_buffers[u].ref_count < MaxRefCount
  /\ race' = [race EXCEPT ![t].at = IF u \in DOMAIN open_file_buffers
                                      THEN "inc_read" ELSE "create"]
  /\ UNCHANGED <<open_file_buffers, srv, scopes, ret>>
  /\ UNCHANGED race_frame

\* the else branch: a new buffer is stored under the uri, didOpen is sent and
\* the scope's body begins
OpenFileCreate(t, p) ==
  LET u == as_uri(p) IN
  /\ race[t].at = "create"
  /\ open_file_buffers' = [x \in DOMAIN open_file_buffers \cup {u} |->
                             IF x = u THEN LSPFileBuffer(u, read_file(p), 0, 1)
                                      ELSE open_file_buffers[x]]
  /\ srv' = did_open_text_document(srv, u, 0, read_file(p))
  /\ scopes' = [scopes EXCEPT ![p] = @ + 1]
  /\ race' = [Orphaned(race, t) EXCEPT ![t].at = "body"]
  /\ ret' = Ret("open_file", "ok", TRUE, TRUE)
  /\ UNCHANGED race_frame

\* assert ref_count >= 1, then ref_count += 1, the read: the buffer is looked
\* up and its count loaded
OpenFileIncRead(t, p) ==
  LET u == as_uri(p) IN
  /\ race[t].at = "inc_read"
  /\ IF u \in DOMAIN open_file_buffers /\ open_file_buffers[u].ref_count < 1
       THEN /\ race' = [race EXCEPT ![t] = ThreadIdle]
            /\ ret' = Ret("open_file", "AssertionError", TRUE, FALSE)
       ELSE IF u \in DOMAIN open_file_buffers
       THEN /\ race' = [race EXCEPT ![t] = [at |-> "inc_write",
                                             seen |-> open_file_buffers[u].ref_count,
                                             stale |-> FALSE]]
            /\ UNCHANGED ret
       ELSE /\ race' = [race EXCEPT ![t] = ThreadIdle]
            /\ ret' = Ret("open_file", "KeyError", TRUE, FALSE)
  /\ UNCHANGED <<open_file_buffers, srv, scopes>>
  /\ UNCHANGED race_frame

\* ref_count += 1, the write, then yield self.open_file_buffers[uri]
OpenFileIncWrite(t, p) ==
  LET u == as_uri(p) IN
  /\ race[t].at = "inc_write"
  /\ IF u \in DOMAIN open_file_buffers
       THEN /\ open_file_buffers' =
                 IF race[t].stale THEN open_file_buffers
                 ELSE [open_file_buffers EXCEPT ![u].ref_count = race[t].seen + 1]
            /\ scopes' = [scopes EXCEPT ![p] = @ + 1]
            /\ race' = [race EXCEPT ![t] = [ThreadIdle EXCEPT !.at = "body"]]
            /\ ret' = Ret("open_file", "ok", TRUE, FALSE)
       ELSE /\ race' = [race EXCEPT ![t] = ThreadIdle]
            /\ ret' = Ret("open_file", "KeyError", TRUE, FALSE)
            /\ UNCHANGED <<open_file_buffers, scopes>>
  /\ UNCHANGED srv
  /\ UNCHANGED race_frame

\* the body ends; ref_count -= 1, the read
OpenFileDecRead(t, p) ==
  LET u == as_uri(p) IN
  /\ race[t].at = "body"
  /\ scopes' = [scopes EXCEPT ![p] = @ - 1]
  /\ IF u \in DOMAIN open_file_buffers
       THEN /\ race' = [race EXCEPT ![t] = [at |-> "dec_write",
                                             seen |-> open_file_buffers[u].ref_count,
                                             stale |-> FALSE]]
            /\ UNCHANGED ret
       ELSE /\ race' = [race EXCEPT ![t] = ThreadIdle]
            /\ ret' = Ret("open_file", "KeyError", TRUE, FALSE)
  /\ UNCHANGED <<open_file_buffers, srv>>
  /\ UNCHANGED race_frame

\* ref_count -= 1, the write
OpenFileDecWrite(t, p) ==
  LET u == as_uri(p) IN
  /\ race[t].at = "dec_write"
  /\ open_file_buffers' =
       IF race[t].stale \/ u \notin DOMAIN open_file_buffers THEN open_file_buffers
       ELSE [open_file_buffers EXCEPT ![u].ref_count = race[t].seen - 1]
  /\ race' = [race EXCEPT ![t] = [ThreadIdle EXCEPT !.at = "exit_check"]]
  /\ UNCHANGED <<srv, scopes, ret>>
  /\ UNCHANGED race_frame

\* if self.open_file_buffers[uri].ref_count == 0: didClose and del
OpenFileExitCheck(t, p) ==
  LET u == as_uri(p) IN
  /\ race[t].at = "exit_check"
  /\ IF u \notin DOMAIN open_file_buffers
       THEN /\ race' = [race EXCEPT ![t] = ThreadIdle]
            /\ ret' = Ret("open_file", "KeyError", TRUE, FALSE)
            /\ UNCHANGED <<open_file_buffers, srv>>
       ELSE IF open_file_buffers[u].ref_count = 0
       THEN /\ srv' = did_close_text_document(srv, u)
            /\ open_file_buffers' = Remove(open_file_buffers, u)
            /\ race' = [Orphaned(race, t) EXCEPT ![t] = ThreadIdle]
            /\ ret' = Ret("close_file", "ok", TRUE, TRUE)
       ELSE /\ race' = [race EXCEPT ![t] = ThreadIdle]
            /\ ret' = Ret("close_file", "ok", TRUE, FALSE)
            /\ UNCHANGED <<open_file_buffers, srv>>
  /\ UNCHANGED scopes
  /\ UNCHANGED race_frame

\* SyncLanguageServer.insert_text_at_position, on the caller's thread
CallerInsertText(p) ==
  /\ race["caller"].at \in {"idle", "body"}
  /\ server_started
  /\ InsertText(p, 0, 0, <<"a">>, MaxVersion)

RaceNext ==
  \/ StartServer
  \/ \E t \in Threads, p \in Files :
        \/ OpenFileCheck(t, p)
        \/ OpenFileCreate(t, p)
        \/ OpenFileIncRead(t, p)
        \/ OpenFileIncWrite(t, p)
        \/ OpenFileDecRead(t, p)
        \/ OpenFileDecWrite(t, p)
        \/ OpenFileExitCheck(t, p)
  \/ \E p \in Files : CallerInsertText(p)

RaceSpec == Init /\ [][RaceNext]_vars

\* a thread is between two statements of open_file that touch the registry
InsideOpenFile(t) == race[t].at \notin {"idle", "body"}

\* C32: while the caller's thread and the loop thread open and close the same
\* file, no two of them are inside the registry-mutating part of open_file at
\* the same time, and whenever no thread is inside it the buffer's ref_count
\* equals the number of open scopes for the URI (no buffer when there is none).
C32_RegistryExclusiveAndCounted ==
  /\ \A t1, t2 \in Threads : t1 # t2 => ~(InsideOpenFile(t1) /\ InsideOpenFile(t2))
  /\ (\A t \in Threads : ~InsideOpenFile(t)) =>
       \A p \in Files :
         IF as_uri(p) \in DOMAIN open_file_buffers
           THEN open_file_buffers[as_uri(p)].ref_count = scopes[p]
           ELSE scopes[p] = 0

\* the second half alone: the count is wrong once both threads are at rest
C32_RefCountEqualsScopes ==
  (\A t \in Threads : ~InsideOpenFile(t)) =>
     \A p \in Files :
       IF as_uri(p) \in DOMAIN open_file_buffers
         THEN open_file_buffers[as_uri(p)].ref_count = scopes[p]
         ELSE scopes[p] = 0

\* C33: at every moment at most one loop thread created by the facade is
\* alive, and when a stop() that ran the shutdown has returned, the thread it
\* stopped is no longer alive.
C33_OneLoopThread ==
  /\ alive_threads <= 1
  /\ (sync_pc = "idle" /\ stop_log.ran) => thread \notin {"alive", "stuck"}

\* the first half alone
C33_AtMostOneAlive == alive_threads <= 1

\* every child of the symbol names it as its parent, at every depth
RECURSIVE ChildrenLinked(_)
ChildrenLinked(sym) ==
  \A i \in 1..Len(sym.children) :
    /\ "parent" \in DOMAIN sym.children[i]
    /\ sym.children[i].parent = SymbolId(sym.kind, sym.relativePath, sym.name)
    /\ ChildrenLinked(sym.children[i])

\* C34: in the tree request_full_symbol_tree returns over a directory, every
\* symbol below the root package (sub-packages, File symbols and document
\* symbols at every depth) has a parent attribute that names the symbol whose
\* children list holds it.
C34_EverySymbolBelowRootHasParent ==
  TreeOverDirectory =>
    \A i \in 1..Len(tree_call.result) : ChildrenLinked(tree_call.result[i])

\* the same for the packages, the File symbols and the root symbols of each
\* file, leaving out what is nested inside a document symbol
RECURSIVE TopLevelsLinked(_)
TopLevelsLinked(sym) ==
  \A i \in 1..Len(sym.children) :
    /\ "parent" \in DOMAIN sym.children[i]
    /\ sym.children[i].parent = SymbolId(sym.kind, sym.relativePath, sym.name)
    /\ sym.kind \in {"Package"} => TopLevelsLinked(sym.children[i])

C34_TopLevelsHaveParent ==
  TreeOverDirectory =>
    \A i \in 1..Len(tree_call.result) : TopLevelsLinked(tree_call.result[i])

\* ---------------------------------------------------------------- diagnostics
DiagFiles == {"a.py", "b.py"}

Diagnostics == {<<>>, <<"error">>, <<"warning">>}

\* os.path.relpath(unquote(uri.replace("file://", "")), repository_root_path)
\* for the uri of a file inside the repository
relpath_of_uri(uri) == CHOOSE p \in DiagFiles : as_uri(p) = uri

\* LanguageServer.handle_publish_diagnostics: the store after the call
handle_publish_diagnostics(store, uri, diagnostics) ==
  [p \in DOMAIN store \cup {relpath_of_uri(uri)} |->
     IF p = relpath_of_uri(uri) THEN diagnostics ELSE store[p]]

\* LanguageServer.get_diagnostics_for_file
get_diagnostics_for_file(store, relative_path) ==
  IF relative_path \in DOMAIN store THEN store[relative_path] ELSE <<>>

\* the callback Gopls.start_server and PHPActor.start_server register for
\* textDocument/publishDiagnostics
publish_diagnostics_callback == "do_nothing"

\* the handler gives a notification to the callback registered for its method
on_notification(store, callback, uri, diagnostics) ==
  IF callback = "handle_publish_diagnostics"
    THEN handle_publish_diagnostics(store, uri, diagnostics)
    ELSE store

diag_frame == <<server_started, bufvars, syncvars, locvars, sym_file, sym_call,
                treevars, callvars, filevars, shutvars, start_pc, reqvars,
                lockvars, race, alive_threads, scope, logvars>>

\* the child sends textDocument/publishDiagnostics for a file of the repository
PublishDiagnostics(p, diagnostics) ==
  /\ start_pc = "ready"
  /\ diagnostics_store' = on_notification(diagnostics_store, publish_diagnostics_callback,
                                          as_uri(p), diagnostics)
  /\ published' = [q \in DOMAIN published \cup {p} |->
                     IF q = p THEN diagnostics ELSE published[q]]
  /\ UNCHANGED diag_call
  /\ UNCHANGED diag_frame

\* SyncLanguageServer.handle_publish_diagnostics called by the application
\* with the parameters of a notification it received from the child
ForwardDiagnostics(p, diagnostics) ==
  /\ start_pc = "ready"
  /\ diagnostics_store' = handle_publish_diagnostics(diagnostics_store, as_uri(p), diagnostics)
  /\ published' = [q \in DOMAIN published \cup {p} |->
                     IF q = p THEN diagnostics ELSE published[q]]
  /\ UNCHANGED diag_call
  /\ UNCHANGED diag_frame

GetDiagnosticsForFile(p) ==
  /\ diag_call' = [called |-> TRUE, path |-> p,
                   result |-> get_diagnostics_for_file(diagnostics_store, p),
                   notified |-> IF p \in DOMAIN published
                                  THEN <<published[p]>> ELSE <<>>]
  /\ UNCHANGED <<diagnostics_store, published>>
  /\ UNCHANGED diag_frame

DiagNext ==
  \/ GoplsStartEnter
  \/ GoplsProcessStarted
  \/ \E capabilities \in InitializeResponses : GoplsInitializeAnswered(capabilities)
  \/ \E p \in DiagFiles, d \in Diagnostics : PublishDiagnostics(p, d)
  \/ \E p \in DiagFiles, d \in Diagnostics : ForwardDiagnostics(p, d)
  \/ \E p \in DiagFiles : GetDiagnosticsForFile(p)

DiagSpec == Init /\ [][DiagNext]_vars

\* C35: get_diagnostics_for_file(relPath) returns the diagnostics of the most
\* recent publishDiagnostics notification the child sent for that path, and
\* the empty list for a path about which no notification was received.
C35_LatestDiagnosticsReturned ==
  diag_call.called =>
    diag_call.result = IF diag_call.notified # <<>>
                         THEN diag_call.notified[1] ELSE <<>>

\* the second half alone: a path without a notification has no diagnostics
C35_EmptyWithoutNotification ==
  (diag_call.called /\ diag_call.notified = <<>>) => diag_call.result = <<>>

\* C36: whatever start() and stop() calls came before, stop() before the
\* first start() and repeated stop() included, a stop() called on a running
\* facade runs the shutdown instead of being skipped, and is_running() is
\* false when it has returned.  stop_log counts the stop() calls since the
\* last start(), so the first of them found the facade running.
C36_StopOnRunningFacadeShutsDown ==
  (sync_pc = "idle" /\ starts > 0 /\ stop_log.in_row > 0) =>
    (stop_log.ran /\ ~IsRunning)

\* ------------------------------------------- SyncLanguageServer.start_server
start_server_frame == <<bufvars, locvars, sym_file, sym_call, treevars, callvars,
                        filevars, shutvars, start_pc, reqvars, lockvars, race, diagvars, logvars>>

\* the context manager up to its yield: a new loop and thread, and the context
\* of LanguageServer.start_server, held in the local ctx, entered on the loop;
\* self._server_context is not assigned
SyncStartServer ==
  /\ sync_pc = "idle"
  /\ loop = "None"
  /\ co_pc \in {"none", "done"}
  /\ starts < MaxStarts
  /\ loop' = "set"
  /\ loop_thread' = "set"
  /\ thread' = "alive"
  /\ server_started' = TRUE
  /\ process' = "running"
  /\ sigterm' = FALSE
  /\ server_process' = TRUE
  /\ co_pc' = "none"
  /\ request' = "none"
  /\ starts' = starts + 1
  /\ stop_log' = NoStops
  /\ alive_threads' = alive_threads + 1
  /\ scope' = "body"
  /\ UNCHANGED <<server_context, is_shutting_down, is_windows, sync_pc>>
  /\ UNCHANGED start_server_frame

\* an exception of the with block's body is thrown into the generator at its
\* yield, which has no try around it: self.stop() is not reached
ScopeBodyRaises ==
  /\ scope = "body"
  /\ sync_pc = "idle"
  /\ stop_log.in_row = 0
  /\ scope' = "raised"
  /\ UNCHANGED <<server_started, syncvars, alive_threads>>
  /\ UNCHANGED start_server_frame

\* the body ends normally: the generator resumes and calls self.stop()
ScopeBodyEnds ==
  /\ scope = "body"
  /\ stop_log.in_row = 0
  /\ SyncStop

\* the facade used through start_server only.  _server_context stays None, so
\* the coroutine stop() submits goes from its test of 2334 to its finally block
ContextNext ==
  \/ SyncStartServer
  \/ ScopeBodyRaises
  \/ ScopeBodyEnds
  \/ SyncStopJoin
  \/ SyncStopFinish
  \/ SyncRequest
  \/ SyncResponse
  \/ ShutdownEnter
  \/ ShutdownFinally

ContextSpec == SyncFacadeInit /\ [][ContextNext]_vars

\* the with block of start_server has been left: by an exception, or by its
\* normal end, stop() having returned and the coroutine it submitted being done
ScopeLeft ==
  \/ scope = "raised"
  \/ /\ scope = "body"
     /\ sync_pc = "idle"
     /\ stop_log.in_row > 0
     /\ co_pc \in {"none", "done"}

\* C37: when the scope of SyncLanguageServer.start_server has been left, also
\* by an exception of its body, the shutdown of the async core has run:
\* server_started is false and the handler's process reference is cleared.
C37_CoreShutDownWhenScopeLeft ==
  ScopeLeft => (~server_started /\ ~server_process)

\* the same for the scopes left without an exception
C37_CoreShutDownAfterNormalExit ==
  (ScopeLeft /\ scope = "body") => (~server_started /\ ~server_process)

\* ------------------------------------------------------- edits that fail
\* positions whose line lies past the end of the file's text: TextUtils walks
\* past the end of the text and raises
OutsidePositions(text) ==
  {pos \in (0..(Len(text) + 1)) \X (0..MaxCol) : LineStartFrom(text, 0, pos[1]) < 0}

\* the buffer when TextUtils raises: version += 1 has run, the statements
\* after the call have not
BufferAfterFailedEdit(buf) == [buf EXCEPT !.version = @ + 1]

\* the buffer as it was when the edit was called
BeforeEdit(buf, start, end) ==
  [phase |-> "failed", contents |-> buf.contents, content_hash |-> buf.content_hash,
   version |-> buf.version, start |-> start, end |-> end]

\* insert_text_at_position with a position outside the contents
InsertTextOutside(p, line, col, ins, max_edits) ==
  LET u == as_uri(p) IN
  /\ server_started
  /\ u \in DOMAIN open_file_buffers
  /\ open_file_buffers[u].version < max_edits
  /\ <<line, col>> \in OutsidePositions(open_file_buffers[u].contents)
  /\ open_file_buffers' = [open_file_buffers EXCEPT ![u] = BufferAfterFailedEdit(@)]
  /\ hist' = [hist EXCEPT ![p] = BeforeEdit(open_file_buffers[u], <<line, col>>, <<line, col>>)]
  /\ ret' = RetOf("insert_text_at_position", "PositionError", TRUE, FALSE, NoDoc)
  /\ UNCHANGED <<server_started, srv, scopes, pending, cache, cache_has_changed>>
  /\ UNCHANGED <<syncvars, locvars, symvars>>

\* delete_text_between_positions with an end outside the contents
DeleteTextOutside(p, start, end, max_edits) ==
  LET u == as_uri(p) IN
  /\ server_started
  /\ u \in DOMAIN open_file_buffers
  /\ open_file_buffers[u].version < max_edits
  /\ start \in Positions(open_file_buffers[u].contents)
  /\ end \in OutsidePositions(open_file_buffers[u].contents)
  /\ open_file_buffers' = [open_file_buffers EXCEPT ![u] = BufferAfterFailedEdit(@)]
  /\ hist' = [hist EXCEPT ![p] = BeforeEdit(open_file_buffers[u], start, end)]
  /\ ret' = RetOf("delete_text_between_positions", "PositionError", TRUE, FALSE, NoDoc)
  /\ UNCHANGED <<server_started, srv, scopes, pending, cache, cache_has_changed>>
  /\ UNCHANGED <<syncvars, locvars, symvars>>

\* the edits with every position a caller may pass
EditFailNext ==
  \/ StartServer
  \/ \E p \in Files : OpenFile(p) \/ CloseFile(p)
  \/ \E p \in Files : \E ins \in InsertTexts, pos \in PositionsOf(p) :
        InsertText(p, pos[1], pos[2], ins, MaxVersion)
  \/ \E p \in Files : \E start, end \in PositionsOf(p) :
        DeleteText(p, start, end, MaxVersion)
  \/ \E p \in Files : \E ins \in InsertTexts, line \in 0..4, col \in 0..MaxCol :
        InsertTextOutside(p, line, col, ins, MaxVersion)
  \/ \E p \in Files : \E start \in PositionsOf(p), line \in 0..4, col \in 0..MaxCol :
        DeleteTextOutside(p, start, <<line, col>>, MaxVersion)

EditFailSpec == Init /\ [][EditFailNext]_vars

EditOps == {"insert_text_at_position", "delete_text_between_positions"}

\* C38: when insert_text_at_position or delete_text_between_positions has
\* failed, no didChange was sent, and after a failure on a position outside
\* the contents the buffer has the contents, version and content_hash it had
\* when the edit was called.
C38_FailedEditLeavesBuffer ==
  (ret.op \in EditOps /\ ret.outcome # "ok") =>
    /\ ~ret.sent
    /\ \A p \in Files :
         (ret.outcome = "PositionError" /\ hist[p].phase = "failed") =>
           /\ as_uri(p) \in DOMAIN open_file_buffers
           /\ open_file_buffers[as_uri(p)].contents = hist[p].contents
           /\ open_file_buffers[as_uri(p)].content_hash = hist[p].content_hash
           /\ open_file_buffers[as_uri(p)].version = hist[p].version

\* the claim without the version: a failed edit sends nothing and leaves the
\* contents and the hash alone
C38_FailedEditKeepsContents ==
  (ret.op \in EditOps /\ ret.outcome # "ok") =>
    /\ ~ret.sent
    /\ \A p \in Files :
         (ret.outcome = "PositionError" /\ hist[p].phase = "failed") =>
           /\ open_file_buffers[as_uri(p)].contents = hist[p].contents
           /\ open_file_buffers[as_uri(p)].content_hash = hist[p].content_hash

\* -------------------------------------------------- start_server that fails
start_fail_frame == <<bufvars, locvars, sym_file, sym_call, treevars, callvars,
                      filevars, reqvars, extvars, sync_rest, sigterm>>

\* await self.server.start() returns: the child runs, its pipes are open and
\* the reader tasks of the handler run
ServerStart ==
  /\ start_pc = "starting"
  /\ process' = "running"
  /\ server_process' = TRUE
  /\ pipes' = [n \in PipeNames |-> "open"]
  /\ task_state' = [t \in ReaderTasks |-> "running"]
  /\ server_tasks' = ReaderTasks
  /\ start_pc' = "initializing"
  /\ UNCHANGED <<server_started, sd_pc, sd_log, sd_wait, reader_tasks>>
  /\ UNCHANGED start_fail_frame

\* the child answers initialize with the asserted capabilities: initialized is
\* sent and the context yields
StartInitialized(capabilities) ==
  /\ start_pc = "initializing"
  /\ process = "running"
  /\ asserted_capabilities \subseteq capabilities
  /\ start_pc' = "ready"
  /\ UNCHANGED <<server_started, process, server_process, shutvars>>
  /\ UNCHANGED start_fail_frame

\* the child exits by itself while the start is in progress
ChildExitsDuringStart ==
  /\ start_pc = "initializing"
  /\ process = "running"
  /\ process' = "exited"
  /\ UNCHANGED <<server_started, server_process, shutvars, start_pc>>
  /\ UNCHANGED start_fail_frame

StartFailures == {"start_error", "initialize_error", "missing_capability"}

\* an exception inside the async with of Gopls.start_server: server.start()
\* raises, the initialize request raises, or an assertion on the capabilities
\* fails.  The finally block of LanguageServer.start_server runs:
\* server_started = False, then _shutdown up to its first await
StartServerFails(kind) ==
  /\ IF kind = "start_error" THEN start_pc = "starting" ELSE start_pc = "initializing"
  /\ kind = "missing_capability" =>
       \E capabilities \in InitializeResponses : ~(asserted_capabilities \subseteq capabilities)
  /\ server_started' = FALSE
  /\ start_pc' = "failing"
  /\ IF server_is_running(server_process, process)
       THEN /\ sd_pc' = "stage1"
            /\ reader_tasks' = server_tasks
            /\ sd_log' = <<"shutdown_request">>
       ELSE /\ sd_pc' = "skipped"
            /\ UNCHANGED <<reader_tasks, sd_log>>
  /\ UNCHANGED <<process, server_process, sd_wait, task_state, server_tasks, pipes>>
  /\ UNCHANGED start_fail_frame

\* _shutdown has returned and the exception leaves start_server
ErrorReachesCaller ==
  /\ start_pc = "failing"
  /\ sd_pc \in {"returned", "skipped"}
  /\ start_pc' = "failed"
  /\ UNCHANGED <<server_started, process, server_process, shutvars>>
  /\ UNCHANGED start_fail_frame

StartFailNext ==
  \/ GoplsStartEnter
  \/ ServerStart
  \/ \E capabilities \in InitializeResponses : StartInitialized(capabilities)
  \/ ChildExitsDuringStart
  \/ \E kind \in StartFailures : StartServerFails(kind)
  \/ ErrorReachesCaller
  \/ \E how \in ShutdownRequestOutcomes, raises \in BOOLEAN : Stage1Ends(how, raises)
  \/ WaitReturns
  \/ WaitTimesOut
  \/ Stage3
  \/ Reaped
  \/ CleanupCancel
  \/ CleanupFinish
  \/ ChildExitsOnRequest
  \/ ChildExitsOnTerminate
  \/ \E t \in DOMAIN task_state : ReaderReachesEOF(t)
  \/ \E t \in DOMAIN task_state : TaskFinishes(t)

StartFailSpec == Init /\ [][StartFailNext]_vars

\* C39: when a failure of start_server (process start error, initialize
\* error, missing capability) has reached the caller, server_started is false,
\* no child runs, and every pipe of a child that was launched is closed.
C39_FailedStartLeavesNothing ==
  start_pc = "failed" =>
    /\ ~server_started
    /\ process # "running"
    /\ \A n \in DOMAIN pipes : pipes[n] = "closed"

\* the same without the pipes
C39_FailedStartLeavesNoChild ==
  start_pc = "failed" => (~server_started /\ process # "running")

\* the claim for the starts that failed with the child still running
C39_CleanWhenShutdownRan ==
  (start_pc = "failed" /\ sd_pc = "returned") =>
    /\ ~server_started
    /\ process # "running"
    /\ ~server_process
    /\ \A n \in DOMAIN pipes : pipes[n] = "closed"

\* ------------------------------------------------ the dashboard's log messages
log_frame == <<server_started, bufvars, syncvars, locvars, sym_file, sym_call,
               treevars, callvars, filevars, shutvars, start_pc, reqvars,
               lockvars, race, alive_threads, diagvars, scope>>

\* all_messages[start_idx:] if start_idx <= len(all_messages) else []
requested_messages(all_messages, start_idx) ==
  IF start_idx <= Len(all_messages)
  THEN SubSeq(all_messages, start_idx + 1, Len(all_messages))
  ELSE <<>>

\* ResponseLog(messages=requested_messages, max_idx=len(all_messages) - 1)
ResponseLog(messages, all_messages) ==
  [messages |-> messages, max_idx |-> Len(all_messages) - 1]

\* MemoryLogHandler.emit: the formatted record is put on the queue
LogEmit ==
  /\ emitted < MaxEmits
  /\ emitted' = emitted + 1
  /\ log_queue' = Append(log_queue, emitted + 1)
  /\ UNCHANGED <<logs, log_poll, delivered, log_frame>>

\* one round of the worker thread's loop in _process_queue with a message on
\* the queue: LogBuffer.append
ProcessQueue ==
  /\ log_queue # <<>>
  /\ logs' = Append(logs, Head(log_queue))
  /\ log_queue' = Tail(log_queue)
  /\ UNCHANGED <<emitted, log_poll, delivered, log_frame>>

\* _get_log_messages up to the slice: all_messages is the list object of the
\* buffer itself, the slice copies its present elements
GetLogMessagesSlice ==
  /\ log_poll.at = "idle"
  /\ log_poll' = [log_poll EXCEPT !.at = "sliced",
                    !.requested = requested_messages(logs, log_poll.next_start)]
  /\ UNCHANGED <<log_queue, logs, emitted, delivered, log_frame>>

\* the return statement of _get_log_messages: len(all_messages) is taken of the
\* list as it is now; the client receives the response and will ask for
\* max_idx + 1 next
GetLogMessagesReturn ==
  /\ log_poll.at = "sliced"
  /\ LET response == ResponseLog(log_poll.requested, logs)
     IN /\ delivered' = delivered \o response.messages
        /\ log_poll' = [at |-> "idle", requested |-> <<>>,
                        next_start |-> response.max_idx + 1]
  /\ UNCHANGED <<log_queue, logs, emitted, log_frame>>

LogNext ==
  \/ LogEmit
  \/ ProcessQueue
  \/ GetLogMessagesSlice
  \/ GetLogMessagesReturn

LogSpec == Init /\ [][LogNext]_vars

\* C40: polling with start_idx = previous max_idx + 1 while the worker thread
\* appends, the client receives every emitted message exactly once and in emit
\* order: what it has received is always the first messages emitted, none
\* skipped, none repeated
C40_DeliveredOnceInOrder ==
  \A i \in DOMAIN delivered : delivered[i] = i

\* part of C40: no message is delivered twice and the order of emission is kept
C40_NoRepeatInOrder ==
  \A i, j \in DOMAIN delivered : i < j => delivered[i] < delivered[j]

\* part of C40: between two requests, the client has received exactly the
\* messages of the buffer below the index it will ask for next
C40_DeliveredUpToNextStart ==
  log_poll.at = "idle" => delivered = SubSeq(logs, 1, log_poll.next_start)

====
